---- MODULE Spec2Model ----
(***************************************************************************)
(* StationIapetus: the bot's behaviour tree (game/src/bot/behavior), its   *)
(* animation state machine adapter (game/src/bot/state_machine.rs), the    *)
(* bot script's handlers (game/src/bot/mod.rs) and the body-impact         *)
(* handler (game/src/utils/mod.rs).                                        *)
(*                                                                         *)
(* Time is fixed point: one second is Second units, so an f32 duration t   *)
(* is the integer t * Second.  Distances are in tenths of a world unit.    *)
(* State handles are 1-based positions in a layer's state pool, NONE = 0.  *)
(***************************************************************************)
EXTENDS Integers, Sequences, FiniteSets, TLC

VARIABLES
    phase,                 \* "created" (after on_init), "started", "crashed" (a panic)
    health,                \* Character::health of the bot
    target,                \* Bot::target : NoTarget or [handle, position]
    threaten_timeout,      \* Bot::threaten_timeout
    in_progress,           \* ThreatenTarget::in_progress of the tree's ThreatenTarget leaf
    state_machine,         \* Bot::state_machine
    absmPresent,           \* the ABSM node Bot::absm resolves in the scene graph
    absmLayers,            \* the machine's layers: sequence of [name, states]
    activeState,           \* active_state() of the layer at UPPER_BODY_LAYER_INDEX
    additional_rotations,  \* BodyImpactHandler::additional_rotations, as a set of entries
    sceneBones,            \* bone handles that resolve in the scene graph
    lastImpact,            \* what the last BodyImpactHandler call was (instrumentation)
    pendingEvents,         \* events the animation player holds for the upper body layer
    lastEvents,            \* what the last handle_animation_events did (instrumentation)
    ragdoll,               \* the node behind Bot::ragdoll: [present, is_active]
    bodies,                \* health and position of the actor behind each handle
    frame,                 \* what the last ActorContainer::update did (instrumentation)
    boneRotation,          \* local rotation of every bone's scene node
    impactHistory,         \* history: per bone, its last impact and the dt applied since
    turret,                \* a Turret script's fields
    turretScene,           \* the level's actors as the turret's queries see them
    turretTick,            \* what the last Turret::on_update did (instrumentation)
    shots,                 \* history: the barrels fired by the latest firing ticks,
                           \* one tick for each barrel of the turret
    pool,                  \* ActorContainer::pool: what every handle holds
    lastFree,              \* what the last ActorContainer call was (instrumentation)
    door,                  \* a Door of the DoorContainer: [state, offset, open_offset_amount]
    doorTick,              \* what the last call on the door did (instrumentation)
    weapons,               \* Level::weapons: per slot of the pool, [generation, alive, owner]
    projectiles,           \* Level::projectiles: the owner handle of each projectile
    lastRemoval,           \* what the last Level::remove_weapon did (instrumentation)
    tick,                  \* what the last Bot::on_update did (instrumented leaves)
    observedThreaten       \* history: ThreatenTarget saw the threaten state since its last Success

vars == <<phase, health, target, threaten_timeout, in_progress, state_machine,
          absmPresent, absmLayers, activeState, additional_rotations, sceneBones,
          lastImpact, boneRotation, impactHistory, turret, turretScene, turretTick,
          shots, pool, lastFree, pendingEvents, lastEvents, ragdoll, bodies, frame, tick,
          observedThreaten, door, doorTick, weapons, projectiles, lastRemoval>>

botVars == <<phase, health, target, threaten_timeout, in_progress, state_machine,
             absmPresent, absmLayers, activeState, tick, observedThreaten>>

impactVars == <<additional_rotations, sceneBones, lastImpact, boneRotation, impactHistory>>

turretVars == <<turret, turretScene, turretTick, shots>>

actorVars == <<pool, lastFree, bodies, frame>>

eventVars == <<pendingEvents, lastEvents, ragdoll>>

doorVars == <<door, doorTick>>

weaponVars == <<weapons, projectiles, lastRemoval>>

levelVars == <<turretVars, actorVars, eventVars, doorVars, weaponVars>>

(***************************************************************************)
(* Bounds of the model.                                                    *)
(***************************************************************************)
Second == 2          \* fixed-point resolution of time: units per second
FrameLength == 10    \* a bot update lasts FrameLength seconds
FloorFrames == 3     \* updates stop once threaten_timeout would pass -FloorFrames frames
NumActors == 1       \* other actors a bot can see or be damaged by
HealthFloor == 0     \* damage stops once health would pass -HealthFloor
NumBones == 2        \* bones of the bot's skeleton
MaxTurn == 72        \* degrees the impact handler may turn the bones by, in all
NumTurretActors == 2 \* actors of the level a turret stands in
MaxBarrels == 3      \* barrels of a turret
MaxTurretDt == 2     \* longest turret frame, in twentieths of a second
PoolSize == 3        \* handles an ActorContainer hands out
MaxEvents == 2       \* events an animation player holds between two bot updates

(***************************************************************************)
(* Program constants.                                                      *)
(***************************************************************************)
ThreatenTimeoutMin == 20       \* gen_range(20.0..60.0)
ThreatenTimeoutMax == 60
ShootMinDistance == 40         \* MoveToTarget { min_distance: 4.0 }
CloseCombatDistance == 12      \* close_combat_distance: 1.2
MeleeDamage == 20              \* amount: 20.0 of the melee Damage message
DefaultSpeedFactor == 100      \* movement_speed_factor: 1.0, in percent
LOWER_BODY_LAYER_INDEX == 0
UPPER_BODY_LAYER_INDEX == 1
ImpactAngle == 24              \* 24.0f32.to_radians(), in degrees

TargetCheckInterval == 3       \* target_check_timer = 0.15, in twentieths of a second
KickLevels == 2                \* levels of a barrel's kick-back offset that are told apart
MaxOpenOffset == 3             \* open_offset_amount of a door, in halves of DoorSpeed
MaxDoorDt == 2                 \* dt of DoorContainer::update, in seconds
WeaponSlotCount == 2           \* slots of the weapon pool
MaxGeneration == 2             \* generations of a slot of the weapon pool
MaxProjectiles == 2            \* projectiles alive at a time
DoorSpeed == 55                \* let speed = 0.55
DoorRange == 125               \* metric_distance(..) < 1.25
ShootInterval == 4             \* shoot_interval: 0.2, in twentieths of a second

NONE == 0
NoTarget == [handle |-> NONE, position |-> 0]

Actors == 1..NumActors
Positions == {0}
Bones == 1..NumBones

Success == "Success"
Failure == "Failure"
Running == "Running"


(***************************************************************************)
(* BotBehavior::new: the arena of the bot's tree.  A node is               *)
(* [kind, action, children, min_distance]; nodes are named after what      *)
(* they hold.                                                              *)
(***************************************************************************)
LeafNode(a) == [kind |-> "Leaf", action |-> a, children |-> <<>>, min_distance |-> 0]

MoveToTargetNode(d) ==
    [kind |-> "Leaf", action |-> "MoveToTarget", children |-> <<>>, min_distance |-> d]

CompositeNode(k, ch) == [kind |-> k, action |-> "None", children |-> ch, min_distance |-> 0]

\* Sequence[IsDead, StayDead]
DeadBranch ==
    ("DeadSeq" :> CompositeNode("Sequence", <<"IsDead", "StayDead">>))
    @@ ("IsDead" :> LeafNode("IsDead"))
    @@ ("StayDead" :> LeafNode("StayDead"))

ThreatBranchAsSelector ==
    ("ThreatSeq" :> CompositeNode("Selector", <<"NeedsThreatenTarget", "ThreatenTarget">>))
    @@ ("NeedsThreatenTarget" :> LeafNode("NeedsThreatenTarget"))
    @@ ("ThreatenTarget" :> LeafNode("ThreatenTarget"))

\* Sequence[NeedsThreatenTarget, ThreatenTarget]
ThreatBranch ==
    ("ThreatSeq" :> CompositeNode("Sequence", <<"NeedsThreatenTarget", "ThreatenTarget">>))
    @@ ("NeedsThreatenTarget" :> LeafNode("NeedsThreatenTarget"))
    @@ ("ThreatenTarget" :> LeafNode("ThreatenTarget"))

\* Sequence[CanShootTarget, MoveToTarget(4.0), ShootTarget]
ShootBranch ==
    ("ShootSeq" :> CompositeNode("Sequence", <<"CanShootTarget", "MoveToShoot", "ShootTarget">>))
    @@ ("CanShootTarget" :> LeafNode("CanShootTarget"))
    @@ ("MoveToShoot" :> MoveToTargetNode(ShootMinDistance))
    @@ ("ShootTarget" :> LeafNode("ShootTarget"))

\* Sequence[MoveToTarget(close_combat_distance), CanMeleeAttack, DoMeleeAttack]
MeleeBranch(close_combat_distance) ==
    ("MeleeSeq" :> CompositeNode("Sequence", <<"MoveToMelee", "CanMeleeAttack", "DoMeleeAttack">>))
    @@ ("MoveToMelee" :> MoveToTargetNode(close_combat_distance))
    @@ ("CanMeleeAttack" :> LeafNode("CanMeleeAttack"))
    @@ ("DoMeleeAttack" :> LeafNode("DoMeleeAttack"))

CombatSelectorAsSequence ==
    "CombatSel" :> CompositeNode("Sequence", <<"ThreatSeq", "ShootSeq", "MeleeSeq">>)

CombatSelectorMeleeFirst ==
    "CombatSel" :> CompositeNode("Selector", <<"ThreatSeq", "MeleeSeq", "ShootSeq">>)

CombatSelectorShootFirst ==
    "CombatSel" :> CompositeNode("Selector", <<"ShootSeq", "ThreatSeq", "MeleeSeq">>)

\* Selector{threat, shoot, melee}
CombatSelector ==
    "CombatSel" :> CompositeNode("Selector", <<"ThreatSeq", "ShootSeq", "MeleeSeq">>)

TargetBranchAsSelector ==
    ("MainSeq" :> CompositeNode("Selector", <<"FindTarget", "CombatSeq">>))
    @@ ("FindTarget" :> LeafNode("FindTarget"))
    @@ ("CombatSeq" :> CompositeNode("Sequence", <<"AimOnTarget", "CombatSel">>))
    @@ ("AimOnTarget" :> LeafNode("AimOnTarget"))

\* Sequence[FindTarget, Sequence[AimOnTarget, <combat selector>]]
TargetBranch ==
    ("MainSeq" :> CompositeNode("Sequence", <<"FindTarget", "CombatSeq">>))
    @@ ("FindTarget" :> LeafNode("FindTarget"))
    @@ ("CombatSeq" :> CompositeNode("Sequence", <<"AimOnTarget", "CombatSel">>))
    @@ ("AimOnTarget" :> LeafNode("AimOnTarget"))

EntryNodeTargetFirst ==
    "Entry" :> CompositeNode("Selector", <<"MainSeq", "DeadSeq">>)

\* Selector{dead branch, target branch}
EntryNode ==
    "Entry" :> CompositeNode("Selector", <<"DeadSeq", "MainSeq">>)

BotBehaviorNew(close_combat_distance) ==
    [entry |-> "Entry",
     nodes |-> EntryNode @@ DeadBranch @@ TargetBranch @@ CombatSelector
               @@ ThreatBranch @@ ShootBranch @@ MeleeBranch(close_combat_distance)]

(***************************************************************************)
(* BehaviorContext: the outputs a tick starts from.                        *)
(***************************************************************************)
DefaultOutputs ==
    [attack_animation_index |-> 0,
     movement_speed_factor |-> DefaultSpeedFactor,
     is_moving |-> FALSE,
     need_to_melee_attack |-> FALSE,
     is_melee_attack |-> FALSE,
     is_aiming_weapon |-> FALSE,
     is_screaming |-> FALSE]

(***************************************************************************)
(* StateMachine: the handles resolved at construction and the layer query. *)
(***************************************************************************)
AbsmNode == "absm"      \* the handle in Bot::absm

DefaultStateMachine ==
    [absm |-> "none", aim_state |-> NONE, attack_state |-> NONE,
     threaten_state |-> NONE, dead_state |-> NONE]

\* Position of the layer called name (0-based, as the pool's index), or -1.
FindLayerByName(layers, name) ==
    IF \E i \in 1..Len(layers) : layers[i].name = name
    THEN (CHOOSE i \in 1..Len(layers) :
              /\ layers[i].name = name
              /\ \A j \in 1..(i - 1) : layers[j].name # name) - 1
    ELSE -1

\* Handle of the state called name in a layer's pool, or NONE.
FindStateByName(states, name) ==
    IF \E i \in 1..Len(states) : states[i] = name
    THEN CHOOSE i \in 1..Len(states) :
             /\ states[i] = name
             /\ \A j \in 1..(i - 1) : states[j] # name
    ELSE NONE

\* fetch_layer: [available, active_state] of the layer at index idx.
FetchLayer(sm, present, layers, active, idx) ==
    IF sm.absm = AbsmNode /\ present /\ idx + 1 <= Len(layers)
    THEN [available |-> TRUE, active_state |-> active]
    ELSE [available |-> FALSE, active_state |-> NONE]

UpperBodyLayer(sm, present, layers, active) ==
    FetchLayer(sm, present, layers, active, UPPER_BODY_LAYER_INDEX)


(***************************************************************************)
(* The leaves.  Each takes the context c = [health, target,                *)
(* threaten_timeout, in_progress, out, log] and the tick's readings of the *)
(* world `in`, and yields [status, ctx].                                   *)
(***************************************************************************)
Result(s, c) == [status |-> s, ctx |-> c]

\* IsDead: Success iff health <= 0.
IsDeadTickNever(c) == Result(Failure, c)

IsDeadTick(c) ==
    IF c.health <= 0 THEN Result(Success, c) ELSE Result(Failure, c)

\* StayDead: Running, no output is touched.
StayDeadTick(c) == Result(Running, c)

\* FindTarget: a living visible hostile candidate becomes the target.
FindTargetTick(c, in) ==
    IF in.found # NoTarget
    THEN Result(Success, [c EXCEPT !.target = in.found])
    ELSE Result(Failure, c)

\* AimOnTarget: needs a target; raises is_aiming_weapon.
AimOnTargetTick(c) ==
    IF c.target # NoTarget
    THEN Result(Success, [c EXCEPT !.out.is_aiming_weapon = TRUE])
    ELSE Result(Failure, c)

NeedsThreatenTargetTickBelowZero(c) ==
    IF c.threaten_timeout < 0 THEN Result(Success, c) ELSE Result(Failure, c)

NeedsThreatenTargetTickEarly(c) ==
    IF c.threaten_timeout <= ThreatenTimeoutMin * Second
    THEN Result(Success, c) ELSE Result(Failure, c)

NeedsThreatenTargetTick(c) ==
    IF c.threaten_timeout <= 0 THEN Result(Success, c) ELSE Result(Failure, c)

ThreatenTargetTickKeepsProgress(c, in) ==
    IF in.upper_body_layer.available
    THEN IF in.upper_body_layer.active_state = in.state_machine.threaten_state
         THEN Result(Running, [c EXCEPT !.in_progress = TRUE])
         ELSE IF c.in_progress
              THEN Result(Success, [c EXCEPT !.threaten_timeout = in.draw])
              ELSE Result(Running, [c EXCEPT !.out.is_screaming = TRUE])
    ELSE Result(Failure, c)

ThreatenTargetTickShortDraw(c, in) ==
    IF in.upper_body_layer.available
    THEN IF in.upper_body_layer.active_state = in.state_machine.threaten_state
         THEN Result(Running, [c EXCEPT !.in_progress = TRUE])
         ELSE IF c.in_progress
              THEN Result(Success, [c EXCEPT !.in_progress = FALSE,
                                             !.threaten_timeout = in.draw - ThreatenTimeoutMin * Second])
              ELSE Result(Running, [c EXCEPT !.out.is_screaming = TRUE])
    ELSE Result(Failure, c)

ThreatenTargetTickScreamsOn(c, in) ==
    IF in.upper_body_layer.available
    THEN IF in.upper_body_layer.active_state = in.state_machine.threaten_state
         THEN Result(Running, [c EXCEPT !.in_progress = TRUE, !.out.is_screaming = TRUE])
         ELSE IF c.in_progress
              THEN Result(Success, [c EXCEPT !.in_progress = FALSE,
                                             !.threaten_timeout = in.draw])
              ELSE Result(Running, [c EXCEPT !.out.is_screaming = TRUE])
    ELSE Result(Failure, c)

ThreatenTargetTickGoesOn(c, in) ==
    IF in.upper_body_layer.available
    THEN IF in.upper_body_layer.active_state = in.state_machine.threaten_state
         THEN Result(Running, [c EXCEPT !.in_progress = TRUE])
         ELSE IF c.in_progress
              THEN Result(Success, [c EXCEPT !.in_progress = FALSE,
                                             !.threaten_timeout = in.draw])
              ELSE Result(Running, [c EXCEPT !.out.is_screaming = TRUE])
    ELSE Result(Success, c)

ThreatenTargetTick(c, in) ==
    IF in.upper_body_layer.available
    THEN IF in.upper_body_layer.active_state = in.state_machine.threaten_state
         THEN Result(Running, [c EXCEPT !.in_progress = TRUE])
         ELSE IF c.in_progress
              THEN Result(Success, [c EXCEPT !.in_progress = FALSE,
                                             !.threaten_timeout = in.draw])
              ELSE Result(Running, [c EXCEPT !.out.is_screaming = TRUE])
    ELSE Result(Failure, c)

\* CanShootTarget: clear line of sight and weapon range.
CanShootTargetTick(c, in) ==
    IF in.can_shoot THEN Result(Success, c) ELSE Result(Failure, c)

\* MoveToTarget: Success within min_distance, else keeps walking.
MoveToTargetTick(node, c, in) ==
    IF in.distance <= node.min_distance
    THEN Result(Success, c)
    ELSE Result(Running, [c EXCEPT !.out.is_moving = TRUE,
                                   !.out.movement_speed_factor = in.speed_factor])

\* ShootTarget: Success when the fire-rate timer has elapsed.
ShootTargetTick(c, in) ==
    IF in.fire_ready THEN Result(Success, c) ELSE Result(Running, c)

\* CanMeleeAttack: within close-combat distance.
CanMeleeAttackTick(c, in) ==
    IF in.distance <= in.close_combat_distance
    THEN Result(Success, c) ELSE Result(Failure, c)

\* DoMeleeAttack: Running until the attack animation's event fires.
DoMeleeAttackTick(c, in) ==
    IF in.attack_ended
    THEN Result(Success, c)
    ELSE Result(Running, [c EXCEPT !.out.need_to_melee_attack = TRUE,
                                   !.out.is_melee_attack = TRUE,
                                   !.out.attack_animation_index = in.attack_index])

\* Action::tick: dispatch on the variant.
ActionTick(node, c, in) ==
    CASE node.action = "FindTarget" -> FindTargetTick(c, in)
      [] node.action = "MoveToTarget" -> MoveToTargetTick(node, c, in)
      [] node.action = "DoMeleeAttack" -> DoMeleeAttackTick(c, in)
      [] node.action = "ShootTarget" -> ShootTargetTick(c, in)
      [] node.action = "CanMeleeAttack" -> CanMeleeAttackTick(c, in)
      [] node.action = "IsDead" -> IsDeadTick(c)
      [] node.action = "StayDead" -> StayDeadTick(c)
      [] node.action = "AimOnTarget" -> AimOnTargetTick(c)
      [] node.action = "CanShootTarget" -> CanShootTargetTick(c, in)
      [] node.action = "NeedsThreatenTarget" -> NeedsThreatenTargetTick(c)
      [] node.action = "ThreatenTarget" -> ThreatenTargetTick(c, in)

(***************************************************************************)
(* BehaviorTree::tick: every node that is ticked appends [node, status]    *)
(* to the context's log when it returns.                                   *)
(***************************************************************************)
Logged(r, n) ==
    Result(r.status, [r.ctx EXCEPT !.log = Append(@, [node |-> n, status |-> r.status])])

RECURSIVE TickNode(_, _, _, _)
RECURSIVE TickSequence(_, _, _, _, _)
RECURSIVE TickSelector(_, _, _, _, _)

\* Sequence: children from the i-th on; stops at the first Failure or Running.
TickSequence(tree, n, i, c, in) ==
    LET children == tree.nodes[n].children IN
    IF i > Len(children)
    THEN Result(Success, c)
    ELSE LET r == TickNode(tree, children[i], c, in) IN
         IF r.status = Success
         THEN TickSequence(tree, n, i + 1, r.ctx, in)
         ELSE r

\* Selector: children from the i-th on; stops at the first Success or Running.
TickSelector(tree, n, i, c, in) ==
    LET children == tree.nodes[n].children IN
    IF i > Len(children)
    THEN Result(Failure, c)
    ELSE LET r == TickNode(tree, children[i], c, in) IN
         IF r.status = Failure
         THEN TickSelector(tree, n, i + 1, r.ctx, in)
         ELSE r

TickNode(tree, n, c, in) ==
    LET node == tree.nodes[n] IN
    Logged(CASE node.kind = "Leaf" -> ActionTick(node, c, in)
             [] node.kind = "Sequence" -> TickSequence(tree, n, 1, c, in)
             [] node.kind = "Selector" -> TickSelector(tree, n, 1, c, in),
           n)

TreeTick(tree, c, in) == TickNode(tree, tree.entry, c, in)


(***************************************************************************)
(* StateMachine::new: [kind, value] with kind "Some", "None" (a `?` gave   *)
(* up) or "Panic" (the assert_eq! on the layer index failed).              *)
(***************************************************************************)
StateMachineNewDefaultsThreaten(machine_handle, present, layers) ==
    IF ~(machine_handle = AbsmNode /\ present)
    THEN [kind |-> "None", value |-> DefaultStateMachine]
    ELSE LET idx == FindLayerByName(layers, "UpperBody") IN
         IF idx = -1
         THEN [kind |-> "None", value |-> DefaultStateMachine]
         ELSE IF idx # UPPER_BODY_LAYER_INDEX
         THEN [kind |-> "Panic", value |-> DefaultStateMachine]
         ELSE LET upper_body == layers[idx + 1].states
                  attack == FindStateByName(upper_body, "MeleeAttack")
                  aim == FindStateByName(upper_body, "Aim")
                  threaten == FindStateByName(upper_body, "Threaten")
                  dead == FindStateByName(upper_body, "Dead")
              IN IF attack = NONE \/ aim = NONE \/ dead = NONE
                 THEN [kind |-> "None", value |-> DefaultStateMachine]
                 ELSE [kind |-> "Some",
                       value |-> [absm |-> machine_handle, aim_state |-> aim,
                                  attack_state |-> attack, threaten_state |-> threaten,
                                  dead_state |-> dead]]

StateMachineNew(machine_handle, present, layers) ==
    IF ~(machine_handle = AbsmNode /\ present)
    THEN [kind |-> "None", value |-> DefaultStateMachine]
    ELSE LET idx == FindLayerByName(layers, "UpperBody") IN
         IF idx = -1
         THEN [kind |-> "None", value |-> DefaultStateMachine]
         ELSE IF idx # UPPER_BODY_LAYER_INDEX
         THEN [kind |-> "Panic", value |-> DefaultStateMachine]
         ELSE LET upper_body == layers[idx + 1].states
                  attack == FindStateByName(upper_body, "MeleeAttack")
                  aim == FindStateByName(upper_body, "Aim")
                  threaten == FindStateByName(upper_body, "Threaten")
                  dead == FindStateByName(upper_body, "Dead")
              IN IF attack = NONE \/ aim = NONE \/ threaten = NONE \/ dead = NONE
                 THEN [kind |-> "None", value |-> DefaultStateMachine]
                 ELSE [kind |-> "Some",
                       value |-> [absm |-> machine_handle, aim_state |-> aim,
                                  attack_state |-> attack, threaten_state |-> threaten,
                                  dead_state |-> dead]]

(***************************************************************************)
(* BodyImpactHandler.  The map is the set of its entries                   *)
(* [bone, k, source]; a source rotation is [axis, angle] with the axis a   *)
(* direction (an integer vector divided by the gcd of its coordinates).    *)
(***************************************************************************)
Abs(x) == IF x < 0 THEN -x ELSE x

RECURSIVE Gcd(_, _)
Gcd(a, b) == IF b = 0 THEN a ELSE Gcd(b, a % b)

Cross(a, b) ==
    <<a[2] * b[3] - a[3] * b[2], a[3] * b[1] - a[1] * b[3], a[1] * b[2] - a[2] * b[1]>>

Sub(a, b) == <<a[1] - b[1], a[2] - b[2], a[3] - b[3]>>

ZeroVector == <<0, 0, 0>>

\* try_normalize(f32::EPSILON): ZeroVector stands for None.
TryNormalize(v) ==
    LET g == Gcd(Gcd(Abs(v[1]), Abs(v[2])), Abs(v[3])) IN
    IF g = 0 THEN ZeroVector ELSE <<v[1] \div g, v[2] \div g, v[3] \div g>>

\* The bones' global transforms: bone b sits at <<b - 1, 0, 0>>, unrotated.
BoneGlobalPosition(b) == <<b - 1, 0, 0>>

\* inverse global transform applied to a point and to a vector
ToLocalPoint(b, p) == Sub(p, BoneGlobalPosition(b))
ToLocalVector(b, v) == v

\* entry(handle).and_modify(..).or_insert(..)
EntryUpsertStacking(rotations, handle, rotation) ==
    rotations \cup {[bone |-> handle, k |-> 0, source |-> rotation]}

EntryUpsert(rotations, handle, rotation) ==
    IF \E e \in rotations : e.bone = handle
    THEN {IF e.bone = handle THEN [e EXCEPT !.source = rotation, !.k = 0] ELSE e
              : e \in rotations}
    ELSE rotations \cup {[bone |-> handle, k |-> 0, source |-> rotation]}

\* handle_impact: the map after the call.
HandleImpactMapAnyAxis(rotations, bones, handle, impact_point, direction) ==
    IF handle \in bones
    THEN LET local_impact_point == ToLocalPoint(handle, impact_point)
             local_direction == ToLocalVector(handle, direction)
             axis == TryNormalize(Cross(local_impact_point, local_direction))
         IN EntryUpsert(rotations, handle, [axis |-> axis, angle |-> ImpactAngle])
    ELSE rotations

HandleImpactMap(rotations, bones, handle, impact_point, direction) ==
    IF handle \in bones
    THEN LET local_impact_point == ToLocalPoint(handle, impact_point)
             local_direction == ToLocalVector(handle, direction)
             axis == TryNormalize(Cross(local_impact_point, local_direction))
         IN IF axis # ZeroVector
            THEN EntryUpsert(rotations, handle, [axis |-> axis, angle |-> ImpactAngle])
            ELSE rotations
    ELSE rotations

\* update_and_apply: the map after the call (every bone of the map resolves).
UpdateAndApplyMapKeepsAtOne(rotations, dt) ==
    {e \in {[x EXCEPT !.k = @ + dt] : x \in rotations} : e.k <= 1 * Second}

UpdateAndApplyMapPrunesFirst(rotations, dt) ==
    {[x EXCEPT !.k = @ + dt] : x \in {e \in rotations : e.k < 1 * Second}}

UpdateAndApplyMap(rotations, dt) ==
    {e \in {[x EXCEPT !.k = @ + dt] : x \in rotations} : e.k < 1 * Second}

\* A bone's local rotation is the product of the turns applied to it, a
\* sequence of [axis, angle] in degrees; the empty sequence is the rest pose.
\* A turn about -n is the opposite turn about n.
Identity == <<>>

Neg(v) == <<-v[1], -v[2], -v[3]>>

Canonical(r) ==
    LET first == IF r.axis[1] # 0 THEN r.axis[1]
                 ELSE IF r.axis[2] # 0 THEN r.axis[2] ELSE r.axis[3]
    IN IF first < 0 THEN [axis |-> Neg(r.axis), angle |-> -r.angle] ELSE r

\* rotation * additional_rotation
Compose(rotation, additional_rotation) ==
    LET r == Canonical(additional_rotation)
        n == Len(rotation)
    IN IF r.angle = 0 THEN rotation
       ELSE IF n > 0 /\ rotation[n].axis = r.axis
       THEN IF rotation[n].angle + r.angle = 0
            THEN SubSeq(rotation, 1, n - 1)
            ELSE [rotation EXCEPT ![n].angle = @ + r.angle]
       ELSE Append(rotation, r)

\* source.nlerp(&UnitQuaternion::default(), k): a turn about the source's axis;
\* its angle falls from the source's at k = 0 to none at k = 1 (taken as linear
\* in k, which for 24 degrees is within a tenth of a degree of nlerp's).
Nlerp(source, k) ==
    [axis |-> source.axis, angle |-> (source.angle * (Second - k)) \div Second]

\* update_and_apply: the bones' rotations after the loop.  The additional
\* rotation is taken at the entry's k before dt is added to it.
UpdateAndApplyBonesAfterStep(rotation, rotations, dt) ==
    [b \in DOMAIN rotation |->
        IF \E e \in rotations : e.bone = b
        THEN LET e == CHOOSE x \in rotations : x.bone = b
             IN Compose(rotation[b], Nlerp(e.source, e.k + dt))
        ELSE rotation[b]]

UpdateAndApplyBones(rotation, rotations, dt) ==
    [b \in DOMAIN rotation |->
        IF \E e \in rotations : e.bone = b
        THEN LET e == CHOOSE x \in rotations : x.bone = b
             IN Compose(rotation[b], Nlerp(e.source, e.k))
        ELSE rotation[b]]

\* degrees turned, factor by factor
RECURSIVE TurnOf(_)
TurnOf(rotation) ==
    IF rotation = <<>> THEN 0 ELSE Abs(Head(rotation).angle) + TurnOf(Tail(rotation))

RECURSIVE TotalTurn(_, _)
TotalTurn(rotations, bones) ==
    IF bones = {} THEN 0
    ELSE LET b == CHOOSE x \in bones : TRUE
         IN TurnOf(rotations[b]) + TotalTurn(rotations, bones \ {b})

\* is_affected
IsAffected(rotations, handle) == \E e \in rotations : e.bone = handle

\* The axis handle_impact computes, ZeroVector if it gives up.
ImpactAxis(bones, handle, impact_point, direction) ==
    IF handle \in bones
    THEN TryNormalize(Cross(ToLocalPoint(handle, impact_point),
                            ToLocalVector(handle, direction)))
    ELSE ZeroVector

NoImpact == [op |-> "none", handle |-> NONE, axis |-> ZeroVector, prior |-> {}]

\* The record of a handle_impact call: its bone, its axis, the bone's entries before it.
ImpactRecord(rotations, bones, handle, impact_point, direction) ==
    [op |-> "handle_impact", handle |-> handle,
     axis |-> ImpactAxis(bones, handle, impact_point, direction),
     prior |-> {e \in rotations : e.bone = handle}]

\* History of a bone: whether an impact has given it an entry, the axis of the
\* last such impact, the bone's rotation when it came, and the dt that
\* update_and_apply has added since (counted up to one second).
NoHistory == [hit |-> FALSE, axis |-> ZeroVector, pre |-> Identity, elapsed |-> 0]

HistoryAfterImpact(history, rotation, bones, handle, impact_point, direction) ==
    LET axis == ImpactAxis(bones, handle, impact_point, direction)
    IN IF axis # ZeroVector
       THEN [history EXCEPT ![handle] =
                 [hit |-> TRUE, axis |-> axis, pre |-> rotation[handle], elapsed |-> 0]]
       ELSE history

HistoryAfterUpdate(history, dt) ==
    [b \in DOMAIN history |->
        [history[b] EXCEPT !.elapsed = IF @ + dt >= Second THEN Second ELSE @ + dt]]


(***************************************************************************)
(* Turret.  An actor of the scene is [state, distance, is_player]: state is *)
(* "clear" (inside the frustum, nothing but capsules between it and the    *)
(* turret), "occluded" (inside the frustum, behind a wall), "outside" (the *)
(* frustum), "dead" (a character with no health left) or "removed" (its    *)
(* handle resolves to no node); distance is its distance to the turret.    *)
(***************************************************************************)
TurretActors == 1..NumTurretActors

\* try_get_character_ref(handle, graph).is_some()
IsCharacter(scene, handle) == handle \in DOMAIN scene /\ scene[handle].state # "removed"

\* Character::is_dead
IsDead(scene, handle) == scene[handle].state = "dead"

\* frustum.is_contains_point(actor_position)
FrustumContains(scene, handle) == scene[handle].state \in {"clear", "occluded"}

\* cast_ray from the actor to the turret: the colliders hit, the turret's own
\* among them.
RayHits(scene, handle) ==
    IF scene[handle].state = "occluded"
    THEN <<[collider |-> "capsule", capsule |-> TRUE],
           [collider |-> "wall", capsule |-> FALSE],
           [collider |-> "own", capsule |-> FALSE]>>
    ELSE <<[collider |-> "capsule", capsule |-> TRUE],
           [collider |-> "own", capsule |-> FALSE]>>

\* 'hit_loop: some hit other than the turret's collider is not a capsule
BehindSomething(hits, collider) ==
    \E i \in 1..Len(hits) : hits[i].collider # collider /\ ~hits[i].capsule

\* the hostility test of the scan
HostilityAllows(hostility, is_player) ==
    ~(\/ hostility = "Player" /\ ~is_player
      \/ hostility = "Monsters" /\ is_player)

\* the body of 'target_loop for one actor: does it pass every filter?
PassesIgnoringFrustum(t, scene, handle) ==
    /\ IsCharacter(scene, handle)
    /\ ~IsDead(scene, handle)
    /\ HostilityAllows(t.hostility, scene[handle].is_player)
    /\ ~BehindSomething(RayHits(scene, handle), t.collider)

Passes(t, scene, handle) ==
    /\ IsCharacter(scene, handle)
    /\ ~IsDead(scene, handle)
    /\ HostilityAllows(t.hostility, scene[handle].is_player)
    /\ FrustumContains(scene, handle)
    /\ ~BehindSomething(RayHits(scene, handle), t.collider)

\* 'target_loop from actor i on: closest is NONE while closest_distance is
\* still f32::MAX.
RECURSIVE TargetLoop(_, _, _, _, _)
TargetLoop(t, scene, i, closest, closest_distance) ==
    IF i > NumTurretActors THEN closest
    ELSE IF Passes(t, scene, i)
            /\ (closest = NONE \/ scene[i].distance < closest_distance)
    THEN TargetLoop(t, scene, i + 1, i, scene[i].distance)
    ELSE TargetLoop(t, scene, i + 1, closest, closest_distance)

\* select_target: the target it leaves.
SelectTarget(t, scene) ==
    IF ~IsCharacter(scene, t.target) \/ ~IsDead(scene, t.target)
    THEN TargetLoop(t, scene, 1, NONE, 0)
    ELSE NONE

\* the match on shoot_mode: [fired, barrel_index], fired the barrels shot in order
ShootConsecutiveNoWrap(t) ==
    IF t.barrel_index < t.barrels
    THEN [fired |-> <<t.barrel_index>>, barrel_index |-> t.barrel_index + 1]
    ELSE [fired |-> <<>>, barrel_index |-> t.barrel_index]

ShootConsecutive(t) ==
    IF t.barrel_index < t.barrels
    THEN [fired |-> <<t.barrel_index>>,
          barrel_index |-> IF t.barrel_index + 1 >= t.barrels THEN 0
                           ELSE t.barrel_index + 1]
    ELSE [fired |-> <<>>, barrel_index |-> t.barrel_index]

ShootSimultaneouslyOneBarrel(t) ==
    [fired |-> IF t.barrels > 0 THEN <<0>> ELSE <<>>, barrel_index |-> t.barrel_index]

ShootSimultaneously(t) ==
    [fired |-> [i \in 1..t.barrels |-> i - 1], barrel_index |-> t.barrel_index]

Shoot(t) ==
    IF t.shoot_mode = "Consecutive" THEN ShootConsecutive(t) ELSE ShootSimultaneously(t)

\* A barrel's kick-back offset, as the number of levels it is away from zero.
\* Barrel::shoot: the barrels fired are thrown back to the full offset
BarrelShoot(offsets, fired) ==
    [i \in 1..Len(offsets) |->
        IF \E k \in 1..Len(fired) : fired[k] = i - 1 THEN KickLevels ELSE offsets[i]]

\* offset.follow(&Vector3::default(), 0.4): a step toward zero
Follow(offset) == IF offset > 0 THEN offset - 1 ELSE 0

\* the loop of Barrel::update over all the barrels
BarrelsUpdate(offsets) == [i \in 1..Len(offsets) |-> Follow(offsets[i])]

\* Barrel::default for each of n barrels
RestingBarrels(n) == [i \in 1..n |-> 0]

\* Turret::default
DefaultTurret ==
    [target |-> NONE, barrel_index |-> 0, shoot_timer |-> 0, target_check_timer |-> 0,
     shoot_mode |-> "Consecutive", hostility |-> "Player", barrels |-> 0,
     shoot_interval |-> ShootInterval, collider |-> "own", offsets |-> <<>>]

\* the test that guards select_target, on the timer after its decrement
ReselectDueAlways(target_check_timer) == TRUE

ReselectDue(target_check_timer) == target_check_timer <= 0

\* the tests that guard the shoot_mode match, on the timer after its decrement
FiresWithoutTarget(scene, t, shoot_timer) == shoot_timer <= 0

Fires(scene, t, shoot_timer) == IsCharacter(scene, t.target) /\ shoot_timer <= 0

\* what the update aims pitch and yaw at: the target, or the idle sweep
AimTargets(scene, t) ==
    IF IsCharacter(scene, t.target)
    THEN [pitch |-> "at target", yaw |-> "at target"]
    ELSE [pitch |-> "90 degrees", yaw |-> "yaw.angle + 50 degrees * dt"]

NoTurretTick ==
    [op |-> "none", reselected |-> FALSE, before |-> NONE, firing |-> FALSE,
     fired |-> <<>>, index_before |-> 0, dt |-> 0, resolved |-> FALSE,
     aim |-> [pitch |-> "none", yaw |-> "none"]]

(***************************************************************************)
(* ActorContainer.  A handle holds [kind, target]: kind is "Unused" (never *)
(* spawned), "Freed", "Bot" or "Player"; a freed handle is never handed    *)
(* out again.                                                              *)
(***************************************************************************)
ActorHandles == 1..PoolSize

WeaponSlots == 1..WeaponSlotCount

\* a slot of Pool<Weapon> that holds nothing
VacantWeapon == [generation |-> 1, alive |-> FALSE, owner |-> NONE]

\* Handle<Weapon>: a slot of the pool and the generation it had at spawn
WeaponHandles == {[slot |-> s, generation |-> g] : s \in WeaponSlots, g \in 1..MaxGeneration}

\* Handle::NONE
NoWeapon == [slot |-> 0, generation |-> 0]

\* WeaponContainer::contains
WeaponsContains(w, h) ==
    h.slot \in WeaponSlots /\ w[h.slot].alive /\ w[h.slot].generation = h.generation

\* the loop of Level::remove_weapon over the projectiles
RemoveWeaponProjectilesKeepsOwners(ps, weapon) == ps

RemoveWeaponProjectiles(ps, weapon) ==
    [i \in 1..Len(ps) |-> IF ps[i] = weapon THEN NoWeapon ELSE ps[i]]

\* self.weapons.free(weapon): the slot is vacated and its generation moves on
WeaponsFree(w, h) ==
    [w EXCEPT ![h.slot] = [generation |-> @.generation + 1, alive |-> FALSE,
                           owner |-> NONE]]

\* Level::remove_weapon on [weapons, projectiles]
RemoveWeapon(level, weapon) ==
    [weapons |-> WeaponsFree(level.weapons, weapon),
     projectiles |-> RemoveWeaponProjectiles(level.projectiles, weapon)]

\* character.weapons(): the handles of the weapons given to the actor
RECURSIVE WeaponsOf(_, _, _)
WeaponsOf(w, actor, slot) ==
    IF slot > WeaponSlotCount THEN <<>>
    ELSE IF w[slot].alive /\ w[slot].owner = actor
    THEN <<[slot |-> slot, generation |-> w[slot].generation]>>
             \o WeaponsOf(w, actor, slot + 1)
    ELSE WeaponsOf(w, actor, slot + 1)

\* the loop of Level::remove_actor over the actor's weapons
RECURSIVE RemoveWeapons(_, _)
RemoveWeapons(level, list) ==
    IF list = <<>> THEN level
    ELSE RemoveWeapons(RemoveWeapon(level, Head(list)), Tail(list))

NoRemoval == [op |-> "none", removed |-> <<>>, before |-> <<>>]

Vacant(kind) == [kind |-> kind, target |-> NoTarget]

IsValidHandle(p, h) == h \in DOMAIN p /\ p[h].kind \in {"Bot", "Player"}

IsBot(p, h) == IsValidHandle(p, h) /\ p[h].kind = "Bot"

\* Bot::on_actor_removed: the bot's target after the call
OnActorRemovedOthers(bot_target, handle) ==
    IF bot_target # NoTarget /\ bot_target.handle # handle THEN NoTarget ELSE bot_target

OnActorRemoved(bot_target, handle) ==
    IF bot_target # NoTarget /\ bot_target.handle = handle THEN NoTarget ELSE bot_target

\* ActorContainer::free: the pool after the call
FreePool(p, actor_handle) ==
    [h \in DOMAIN p |->
        IF h = actor_handle THEN Vacant("Freed")
        ELSE IF IsBot(p, h)
        THEN [p[h] EXCEPT !.target = OnActorRemoved(@, actor_handle)]
        ELSE p[h]]

NoFree == [op |-> "none", handle |-> NONE, before |-> <<>>]

(***************************************************************************)
(* ActorContainer::update.  An actor's body is its health (1 alive, 0      *)
(* dead) and its position; an actor's own update may move it.              *)
(***************************************************************************)
BodyPositions == {0, 1}

FreshBody == [health |-> 1, position |-> 0]

ActorIsDead(body) == body.health <= 0

\* self.target_descriptors after the first loop, in the pool's order
TargetDescriptors(p, b) ==
    LET alive == SelectSeq([h \in 1..PoolSize |-> h],
                           LAMBDA h : IsValidHandle(p, h) /\ ~ActorIsDead(b[h]))
    IN [i \in 1..Len(alive) |->
           [handle |-> alive[i], health |-> b[alive[i]].health,
            position |-> b[alive[i]].position, kind |-> p[alive[i]].kind]]

BotObservesScene(target_descriptors, p, live) == TargetDescriptors(p, live)

\* bot.update(handle, context, &self.target_descriptors): what the bot is
\* given to read about the actors, the bodies being what the loop has made
\* of them so far
BotObserves(target_descriptors, p, live) == target_descriptors

\* the second loop from handle h on: every actor's update in the pool's order
RECURSIVE UpdateLoop(_, _, _, _, _, _)
UpdateLoop(h, p, target_descriptors, live, observed, moves) ==
    IF h > PoolSize THEN [bodies |-> live, observed |-> observed]
    ELSE IF ~IsValidHandle(p, h)
    THEN UpdateLoop(h + 1, p, target_descriptors, live, observed, moves)
    ELSE UpdateLoop(h + 1, p, target_descriptors,
                    [live EXCEPT ![h].position = moves[h]],
                    IF p[h].kind = "Bot"
                    THEN [observed EXCEPT ![h] = BotObserves(target_descriptors, p, live)]
                    ELSE observed,
                    moves)

NoFrame == [op |-> "none", before |-> <<>>, observed |-> <<>>]

(***************************************************************************)
(* Inputs of the handlers.                                                 *)
(***************************************************************************)
BotDts == {FrameLength * Second}
ImpactDts == 0..Second
Candidates == {NoTarget} \cup {[handle |-> a, position |-> p] : a \in Actors, p \in Positions}
Distances == {CloseCombatDistance, ShootMinDistance, ShootMinDistance + 1}
\* gen_range(20.0..60.0): the ends of the half-open range
ThreatenDraws == {ThreatenTimeoutMin * Second, ThreatenTimeoutMax * Second - 1}
DamageAmounts == {1}
\* What a tick reads from the world about its target: line of sight, distance,
\* the weapon's fire timer, the attack animation.  The fire timer is only varied
\* with a clear shot and the attack animation only without one; nothing is varied
\* when no candidate is in sight.
Readings ==
    {[found |-> c, can_shoot |-> s, distance |-> d, fire_ready |-> f, attack_ended |-> a]
         : c \in Candidates, s \in BOOLEAN, d \in Distances, f \in BOOLEAN, a \in BOOLEAN}

WorldReadings ==
    {w \in Readings :
         /\ w.can_shoot => ~w.attack_ended
         /\ ~w.can_shoot => ~w.fire_ready
         /\ w.found = NoTarget =>
                ~w.can_shoot /\ ~w.attack_ended /\ w.distance = CloseCombatDistance}

NoHitbox == [bone |-> NONE, point |-> ZeroVector, direction |-> ZeroVector]
ImpactPoints == {<<0, 1, 0>>}
ImpactDirections == {<<1, 0, 0>>, <<0, 1, 0>>, <<0, 0, 1>>}
Hitboxes == {[bone |-> b, point |-> p, direction |-> d]
                 : b \in Bones, p \in ImpactPoints, d \in ImpactDirections}

RequiredStates == <<"Aim", "MeleeAttack", "Threaten", "Dead">>

\* The sub-sequence of RequiredStates whose names are in S.
StatePool(S) == SelectSeq(RequiredStates, LAMBDA x : x \in S)

Layer(n, st) == [name |-> n, states |-> st]

LayerLayouts(st) ==
    {<<>>,
     <<Layer("LowerBody", <<>>)>>,
     <<Layer("LowerBody", <<>>), Layer("UpperBody", st)>>,
     <<Layer("UpperBody", st), Layer("LowerBody", <<>>)>>}

CompleteLayers ==
    <<Layer("LowerBody", <<>>), Layer("UpperBody", RequiredStates)>>

\* The tree the bot got in on_init.
BehaviorTree == BotBehaviorNew(CloseCombatDistance)

NoTick ==
    [log |-> <<>>, status |-> "None", out |-> DefaultOutputs,
     health |-> 1, timeout_before |-> 0, timeout_after |-> 0,
     layer |-> [available |-> FALSE, active_state |-> NONE],
     in_progress_before |-> FALSE, observed_before |-> FALSE]

(***************************************************************************)
(* Initial states.                                                         *)
(***************************************************************************)
InitBot ==
    /\ phase = "created"
    /\ health = 1
    /\ target = NoTarget
    /\ threaten_timeout = 0
    /\ in_progress = FALSE
    /\ state_machine = DefaultStateMachine
    /\ tick = NoTick
    /\ observedThreaten = FALSE

(***************************************************************************)
(* Bot::handle_animation_events.  The node of the bot is BotHandle; the    *)
(* animation player of a resolving ABSM resolves too.                      *)
(***************************************************************************)
HIT_SIGNAL == "Hit"

EventNames == {HIT_SIGNAL, "Dead"}

BotHandle == NumActors + 1

MeleeDamageMessage(character, self_handle) ==
    [character |-> character, dealer |-> self_handle, hitbox |-> NoHitbox,
     amount |-> MeleeDamage, critical_hit_probability |-> 0, is_melee |-> TRUE]

\* upper_body_layer(..).map(collect_active_animations_events).unwrap_or_default()
UpperLayerEvents(layer, pending) ==
    IF layer.available THEN pending ELSE <<>>

HandleAnimationEventsOfAnyTick(events, bot_target, is_melee_attacking, self_handle) ==
    LET hits == SelectSeq(events, LAMBDA e : e = HIT_SIGNAL)
    IN IF bot_target # NoTarget
       THEN [i \in 1..Len(hits) |-> MeleeDamageMessage(bot_target.handle, self_handle)]
       ELSE <<>>

\* the messages the loop over the upper layer's events sends, in order
HandleAnimationEvents(events, bot_target, is_melee_attacking, self_handle) ==
    LET hits == SelectSeq(events, LAMBDA e : e = HIT_SIGNAL)
    IN IF bot_target # NoTarget /\ is_melee_attacking
       THEN [i \in 1..Len(hits) |-> MeleeDamageMessage(bot_target.handle, self_handle)]
       ELSE <<>>

\* hits: how many of the collected events were named HIT_SIGNAL
ClearAnimationEventsKeepsThem(pending) == pending

\* animations_mut().clear_animation_events()
ClearAnimationEvents(pending) == <<>>

NoEvents == [handled |-> FALSE, hits |-> 0, messages |-> <<>>, target |-> NoTarget,
             is_melee_attacking |-> FALSE, ragdoll_was_active |-> FALSE]

\* Bot::ragdoll as Bot::default leaves it: a handle that resolves to nothing.
NoRagdoll == [present |-> FALSE, is_active |-> FALSE]

RagdollAfterEventsWhileDying(events, r) ==
    IF r.present
    THEN [r EXCEPT !.is_active = \E i \in 1..Len(events) : events[i] = "Dead"]
    ELSE r

\* the ragdoll node after the loop over the upper layer's events
RagdollAfterEvents(events, r) ==
    IF r.present /\ \E i \in 1..Len(events) : events[i] = "Dead"
    THEN [r EXCEPT !.is_active = TRUE]
    ELSE r

EventsRecord(events, bot_target, is_melee_attacking) ==
    [handled |-> TRUE, ragdoll_was_active |-> ragdoll.is_active,
     hits |-> Cardinality({i \in 1..Len(events) : events[i] = HIT_SIGNAL}),
     messages |-> HandleAnimationEvents(events, bot_target, is_melee_attacking, BotHandle),
     target |-> bot_target, is_melee_attacking |-> is_melee_attacking]

(***************************************************************************)
(* Doors (src/src/door.rs).  Offsets and distances are in hundredths.      *)
(***************************************************************************)
DoorStates == {"Opened", "Opening", "Closed", "Closing", "Locked", "Broken"}

OpenOffsets == {(k * DoorSpeed) \div 2 : k \in 0..MaxOpenOffset}

DoorDts == 0..MaxDoorDt

\* the distances of the level's actors from the door's initial position
ActorDoorDistances == {DoorRange - 1, DoorRange, DoorRange + 1}

\* Option<&Inventory>, by its count of ItemKind::MasterKey
Inventories == {[present |-> FALSE, master_keys |-> 0]}
                   \cup {[present |-> TRUE, master_keys |-> n] : n \in 0..1}

\* Door::default; Door::new sets state and open_offset_amount
DefaultDoor == [state |-> "Closed", offset |-> 0, open_offset_amount |-> 0]

DoorNew(state, open_offset_amount) ==
    [state |-> state, offset |-> 0, open_offset_amount |-> open_offset_amount]

NoDoorTick ==
    [op |-> "none", before |-> DefaultDoor, dt |-> 0, near |-> {}, closing |-> FALSE,
     inventory |-> [present |-> FALSE, master_keys |-> 0], messages |-> <<>>]

\* inventory.map(|i| i.item_count(ItemKind::MasterKey) > 0).unwrap_or(false)
ShouldBeUnlockedAlways(inventory) == TRUE

ShouldBeUnlocked(inventory) == inventory.present /\ inventory.master_keys > 0

\* Door::try_open: [door, messages], messages the sounds sent
DoorTryOpen(d, inventory) ==
    IF d.state = "Closed"
    THEN [door |-> [d EXCEPT !.state = "Opening"], messages |-> <<"door_open">>]
    ELSE IF d.state = "Locked"
    THEN IF ShouldBeUnlocked(inventory)
         THEN [door |-> [d EXCEPT !.state = "Opening"],
               messages |-> <<"door_open", "access_granted">>]
         ELSE [door |-> d, messages |-> <<"door_deny">>]
    ELSE [door |-> d, messages |-> <<>>]

\* actors.iter().any(.. metric_distance(&door.initial_position) < 1.25)
SomeoneNearby(near) == \E distance \in near : distance < DoorRange

\* the arm of DoorState::Opening
DoorOpeningUnclamped(d, dt) ==
    IF d.offset < d.open_offset_amount
    THEN IF d.offset + DoorSpeed * dt >= d.open_offset_amount
         THEN [d EXCEPT !.state = "Opened", !.offset = d.offset + DoorSpeed * dt]
         ELSE [d EXCEPT !.offset = d.offset + DoorSpeed * dt]
    ELSE d

DoorOpening(d, dt) ==
    IF d.offset < d.open_offset_amount
    THEN IF d.offset + DoorSpeed * dt >= d.open_offset_amount
         THEN [d EXCEPT !.state = "Opened", !.offset = d.open_offset_amount]
         ELSE [d EXCEPT !.offset = d.offset + DoorSpeed * dt]
    ELSE d

\* the arm of DoorState::Closing
DoorClosing(d, dt) ==
    IF d.offset > 0
    THEN IF d.offset - DoorSpeed * dt <= 0
         THEN [d EXCEPT !.state = "Closed", !.offset = 0]
         ELSE [d EXCEPT !.offset = d.offset - DoorSpeed * dt]
    ELSE d

\* the body of the loop of DoorContainer::update for one door
DoorUpdated(d, near, dt) ==
    LET closing == ~SomeoneNearby(near) /\ d.state = "Opened"
        switched == IF closing THEN [d EXCEPT !.state = "Closing"] ELSE d
        moved == IF switched.state = "Opening" THEN DoorOpening(switched, dt)
                 ELSE IF switched.state = "Closing" THEN DoorClosing(switched, dt)
                 ELSE switched
    IN [door |-> moved, closing |-> closing,
        messages |-> IF closing THEN <<"door_close">> ELSE <<>>]

InitImpact ==
    /\ additional_rotations = {}
    /\ sceneBones = Bones
    /\ lastImpact = NoImpact
    /\ boneRotation = [b \in Bones |-> Identity]
    /\ impactHistory = [b \in Bones |-> NoHistory]

\* The level: a turret as Turret::default leaves it, nobody in its view.
InitScene ==
    /\ turretScene = [a \in TurretActors |->
                         [state |-> "outside", distance |-> 1, is_player |-> a = 1]]
    /\ turretTick = NoTurretTick
    /\ shots = <<>>

\* ActorContainer::new
InitActors ==
    /\ pool = [h \in ActorHandles |-> Vacant("Unused")]
    /\ lastFree = NoFree
    /\ bodies = [h \in ActorHandles |-> FreshBody]
    /\ frame = NoFrame

\* An animation player that has emitted nothing yet.
InitEvents ==
    /\ pendingEvents = <<>>
    /\ lastEvents = NoEvents
    /\ ragdoll = NoRagdoll

InitDoors ==
    /\ door = DefaultDoor
    /\ doorTick = NoDoorTick

InitWeapons ==
    /\ weapons = [slot \in WeaponSlots |-> VacantWeapon]
    /\ projectiles = <<>>
    /\ lastRemoval = NoRemoval

InitLevel ==
    /\ turret = DefaultTurret
    /\ InitScene
    /\ InitActors
    /\ InitDoors
    /\ InitWeapons
    /\ InitEvents

\* A bot on a well-formed rig.
Init ==
    /\ InitBot
    /\ InitImpact
    /\ InitLevel
    /\ absmPresent = TRUE
    /\ absmLayers = CompleteLayers
    /\ activeState = 1

\* A bot on any rig: the ABSM node may be missing, and so may layers and states.
InitSM ==
    /\ InitBot
    /\ InitImpact
    /\ InitLevel
    /\ absmPresent \in BOOLEAN
    /\ \E S \in SUBSET {RequiredStates[i] : i \in 1..Len(RequiredStates)} :
           absmLayers \in LayerLayouts(StatePool(S))
    /\ activeState = IF Len(absmLayers) > UPPER_BODY_LAYER_INDEX
                        /\ Len(absmLayers[UPPER_BODY_LAYER_INDEX + 1].states) > 0
                     THEN 1 ELSE NONE

(***************************************************************************)
(* Bot::on_start                                                           *)
(***************************************************************************)
OnStart ==
    /\ phase = "created"
    /\ LET r == StateMachineNew(AbsmNode, absmPresent, absmLayers) IN
       IF r.kind = "Some"
       THEN /\ state_machine' = r.value
            /\ phase' = "started"
       ELSE /\ phase' = "crashed"        \* unwrap() of None, or the assert
            /\ UNCHANGED state_machine
    /\ UNCHANGED <<health, target, threaten_timeout, in_progress, absmPresent,
                   absmLayers, activeState, tick, observedThreaten>>
    /\ UNCHANGED impactVars
    /\ UNCHANGED levelVars

(***************************************************************************)
(* Bot::on_update                                                          *)
(***************************************************************************)
Ticked(log, n) == \E i \in 1..Len(log) : log[i].node = n

StatusOf(log, n) ==
    IF Ticked(log, n)
    THEN log[CHOOSE i \in 1..Len(log) : log[i].node = n].status
    ELSE "NotTicked"

TickInput(w, draw) ==
    [found |-> w.found, can_shoot |-> w.can_shoot, distance |-> w.distance,
     fire_ready |-> w.fire_ready, attack_ended |-> w.attack_ended, draw |-> draw,
     speed_factor |-> DefaultSpeedFactor, attack_index |-> 0,
     close_combat_distance |-> CloseCombatDistance,
     state_machine |-> state_machine,
     upper_body_layer |-> UpperBodyLayer(state_machine, absmPresent, absmLayers, activeState)]

TickContext ==
    [health |-> health, target |-> target, threaten_timeout |-> threaten_timeout,
     in_progress |-> in_progress, out |-> DefaultOutputs, log |-> <<>>]

\* What the instrumented tick leaves behind.
TickRecord(r, layer) ==
    [log |-> r.ctx.log, status |-> r.status, out |-> r.ctx.out,
     health |-> health, timeout_before |-> threaten_timeout,
     timeout_after |-> r.ctx.threaten_timeout, layer |-> layer,
     in_progress_before |-> in_progress, observed_before |-> observedThreaten]

OnUpdate(dt, w) ==
    /\ phase = "started"
    /\ LET first == ThreatenTimeoutMin * Second
           probe == TreeTick(BehaviorTree, TickContext, TickInput(w, first))
           \* the generator is only consulted by a ThreatenTarget that succeeds
           draws == IF StatusOf(probe.ctx.log, "ThreatenTarget") = Success
                    THEN ThreatenDraws ELSE {first}
       IN \E draw \in draws :
          LET in == TickInput(w, draw)
              r == IF draw = first THEN probe ELSE TreeTick(BehaviorTree, TickContext, in)
              threatened == StatusOf(r.ctx.log, "ThreatenTarget")
          IN /\ r.ctx.threaten_timeout - dt >= -(FloorFrames * FrameLength * Second)
             /\ target' = r.ctx.target
             /\ in_progress' = r.ctx.in_progress
             /\ tick' = TickRecord(r, in.upper_body_layer)
             /\ observedThreaten' =
                    IF threatened = "NotTicked" \/ threatened = Failure
                    THEN observedThreaten
                    ELSE IF in.upper_body_layer.active_state = state_machine.threaten_state
                    THEN TRUE
                    ELSE IF threatened = Success THEN FALSE ELSE observedThreaten
             /\ IF state_machine.absm = AbsmNode /\ absmPresent
                THEN \* state_machine.apply, impact decay, timers
                     /\ IF \A e \in additional_rotations : e.bone \in sceneBones
                        THEN /\ additional_rotations' =
                                    UpdateAndApplyMap(additional_rotations, dt)
                             /\ boneRotation' = UpdateAndApplyBones(boneRotation,
                                                                    additional_rotations, dt)
                             /\ impactHistory' = HistoryAfterUpdate(impactHistory, dt)
                             /\ lastImpact' = [NoImpact EXCEPT !.op = "update_and_apply"]
                             /\ threaten_timeout' = r.ctx.threaten_timeout - dt
                             /\ lastEvents' =
                                    EventsRecord(UpperLayerEvents(in.upper_body_layer,
                                                                  pendingEvents),
                                                 r.ctx.target, r.ctx.out.is_melee_attack)
                             /\ ragdoll' =
                                    RagdollAfterEvents(UpperLayerEvents(in.upper_body_layer,
                                                                        pendingEvents),
                                                       ragdoll)
                             /\ pendingEvents' = ClearAnimationEvents(pendingEvents)
                             /\ phase' = "started"
                        ELSE /\ phase' = "crashed"   \* scene.graph[*body] panics
                             /\ threaten_timeout' = r.ctx.threaten_timeout
                             /\ UNCHANGED <<additional_rotations, lastImpact,
                                            boneRotation, impactHistory, eventVars>>
                ELSE \* state_machine.apply: unwrap() of a missing ABSM
                     /\ phase' = "crashed"
                     /\ threaten_timeout' = r.ctx.threaten_timeout
                     /\ UNCHANGED <<additional_rotations, lastImpact,
                                    boneRotation, impactHistory, eventVars>>
    /\ UNCHANGED <<health, state_machine, absmPresent, absmLayers, activeState, sceneBones>>
    /\ UNCHANGED <<turretVars, actorVars, doorVars, weaponVars>>

(***************************************************************************)
(* Bot::on_message with a CharacterMessage Damage for this bot.            *)
(***************************************************************************)
OnMessage(dealer, amount, hitbox) ==
    /\ phase = "started"
    /\ health - amount >= -HealthFloor
    /\ health' = health - amount                    \* Character::on_character_message
    /\ target' = IF dealer # NoTarget THEN dealer ELSE target     \* set_target
    /\ additional_rotations' =
           IF hitbox # NoHitbox
           THEN HandleImpactMap(additional_rotations, sceneBones, hitbox.bone,
                                hitbox.point, hitbox.direction)
           ELSE additional_rotations
    /\ lastImpact' =
           IF hitbox # NoHitbox
           THEN ImpactRecord(additional_rotations, sceneBones, hitbox.bone,
                             hitbox.point, hitbox.direction)
           ELSE lastImpact
    /\ impactHistory' =
           IF hitbox # NoHitbox
           THEN HistoryAfterImpact(impactHistory, boneRotation, sceneBones, hitbox.bone,
                                   hitbox.point, hitbox.direction)
           ELSE impactHistory
    /\ UNCHANGED <<phase, threaten_timeout, in_progress, state_machine, absmPresent,
                   absmLayers, activeState, tick, observedThreaten, sceneBones,
                   boneRotation>>
    /\ UNCHANGED levelVars

(***************************************************************************)
(* The scene: the animation system moves the upper-body layer to another   *)
(* state; the ABSM node is deleted.                                        *)
(***************************************************************************)
AnimationUpdate(s) ==
    /\ absmPresent
    /\ Len(absmLayers) > UPPER_BODY_LAYER_INDEX
    /\ s \in 1..Len(absmLayers[UPPER_BODY_LAYER_INDEX + 1].states)
    /\ s # activeState
    /\ activeState' = s
    /\ UNCHANGED <<phase, health, target, threaten_timeout, in_progress, state_machine,
                   absmPresent, absmLayers, tick, observedThreaten>>
    /\ UNCHANGED impactVars
    /\ UNCHANGED levelVars

AbsmRemoved ==
    /\ phase = "started"
    /\ absmPresent
    /\ absmPresent' = FALSE
    /\ UNCHANGED <<phase, health, target, threaten_timeout, in_progress, state_machine,
                   absmLayers, activeState, tick, observedThreaten>>
    /\ UNCHANGED impactVars
    /\ UNCHANGED levelVars

(***************************************************************************)
(* BodyImpactHandler called directly.                                      *)
(***************************************************************************)
HandleImpact(handle, impact_point, direction) ==
    /\ phase # "crashed"
    /\ additional_rotations' =
           HandleImpactMap(additional_rotations, sceneBones, handle, impact_point, direction)
    /\ lastImpact' =
           ImpactRecord(additional_rotations, sceneBones, handle, impact_point, direction)
    /\ impactHistory' = HistoryAfterImpact(impactHistory, boneRotation, sceneBones, handle,
                                           impact_point, direction)
    /\ UNCHANGED <<sceneBones, boneRotation>>
    /\ UNCHANGED botVars
    /\ UNCHANGED levelVars

\* scene.graph[*body] panics on an entry whose bone has left the scene; the
\* loop's order is the map's, so any of the other entries may have been done.
UpdateAndApply(dt) ==
    /\ phase # "crashed"
    /\ IF \A e \in additional_rotations : e.bone \in sceneBones
       THEN LET after == UpdateAndApplyBones(boneRotation, additional_rotations, dt)
            IN /\ TotalTurn(after, Bones) <= MaxTurn
               /\ boneRotation' = after
               /\ additional_rotations' = UpdateAndApplyMap(additional_rotations, dt)
               /\ impactHistory' = HistoryAfterUpdate(impactHistory, dt)
               /\ lastImpact' = [NoImpact EXCEPT !.op = "update_and_apply"]
               /\ UNCHANGED phase
       ELSE \E done \in SUBSET {e \in additional_rotations : e.bone \in sceneBones} :
               /\ boneRotation' = UpdateAndApplyBones(boneRotation, done, dt)
               /\ additional_rotations' =
                      (additional_rotations \ done) \cup {[e EXCEPT !.k = @ + dt] : e \in done}
               /\ lastImpact' = [NoImpact EXCEPT !.op = "update_and_apply"]
               /\ phase' = "crashed"
               /\ UNCHANGED impactHistory
    /\ UNCHANGED sceneBones
    /\ UNCHANGED <<health, target, threaten_timeout, in_progress, state_machine,
                   absmPresent, absmLayers, activeState, tick, observedThreaten>>
    /\ UNCHANGED levelVars

\* The scene: a bone's node is removed from the graph.
RemoveBone(b) ==
    /\ phase # "crashed"
    /\ b \in sceneBones
    /\ sceneBones' = sceneBones \ {b}
    /\ UNCHANGED <<additional_rotations, lastImpact, boneRotation, impactHistory>>
    /\ UNCHANGED botVars
    /\ UNCHANGED levelVars

(***************************************************************************)
(* Specifications.                                                         *)
(***************************************************************************)
Next ==
    \/ OnStart
    \/ \E dt \in BotDts, w \in WorldReadings : OnUpdate(dt, w)
    \/ \E dealer \in Candidates, amount \in DamageAmounts :
           OnMessage(dealer, amount, NoHitbox)
    \/ \E s \in 1..Len(RequiredStates) : AnimationUpdate(s)
    \/ AbsmRemoved

Spec == Init /\ [][Next]_vars

\* The animation player emits an event of the upper body layer's animation.
AnimationEmits(name) ==
    /\ phase # "crashed"
    /\ Len(pendingEvents) < MaxEvents
    /\ pendingEvents' = Append(pendingEvents, name)
    /\ lastEvents' = NoEvents   \* the record describes the player as an update left it
    /\ UNCHANGED <<botVars, impactVars, turretVars, actorVars, ragdoll, doorVars, weaponVars>>

\* What a tick reads when the target stands within close combat distance,
\* out of the line of fire.
MeleeReadings ==
    {w \in WorldReadings : ~w.can_shoot /\ w.distance = CloseCombatDistance}

\* A bot in close combat whose animations emit events between its updates.
NextEvents ==
    \/ OnStart
    \/ \E dt \in BotDts, w \in MeleeReadings : OnUpdate(dt, w)
    \/ \E s \in 1..Len(RequiredStates) : AnimationUpdate(s)
    \/ \E name \in EventNames : AnimationEmits(name)

SpecEvents == Init /\ [][NextEvents]_vars

\* A bot in close combat that is damaged while its attack animation emits hits.
NextMelee ==
    \/ OnStart
    \/ \E dt \in BotDts, w \in MeleeReadings : OnUpdate(dt, w)
    \/ \E dealer \in Candidates : OnMessage(dealer, 1, NoHitbox)
    \/ \E s \in 1..Len(RequiredStates) : AnimationUpdate(s)
    \/ AnimationEmits(HIT_SIGNAL)

SpecMelee == Init /\ [][NextMelee]_vars

\* A bot with or without a ragdoll node, whose animations emit "Dead".
InitRagdoll ==
    /\ InitBot
    /\ InitImpact
    /\ turret = DefaultTurret
    /\ InitScene
    /\ InitActors
    /\ InitDoors
    /\ InitWeapons
    /\ pendingEvents = <<>>
    /\ lastEvents = NoEvents
    /\ ragdoll \in {NoRagdoll, [NoRagdoll EXCEPT !.present = TRUE]}
    /\ absmPresent = TRUE
    /\ absmLayers = CompleteLayers
    /\ activeState = 1

NextRagdoll ==
    \/ OnStart
    \/ \E dt \in BotDts, w \in MeleeReadings : OnUpdate(dt, w)
    \/ \E s \in 1..Len(RequiredStates) : AnimationUpdate(s)
    \/ AnimationEmits("Dead")

SpecRagdoll == InitRagdoll /\ [][NextRagdoll]_vars

(***************************************************************************)
(* Saving and loading a bot: #[derive(Visit)] writes and reads back every  *)
(* field of Bot but those marked #[visit(skip)], which the loaded bot has  *)
(* at their Default; the engine then calls on_start on the loaded script.  *)
(***************************************************************************)
Visit(bot) ==
    [target |-> bot.target,
     health |-> bot.health,                       \* character: Character
     state_machine |-> DefaultStateMachine,       \* #[visit(skip)]
     impact_handler |-> {},                       \* #[visit(skip)]
     in_progress |-> bot.in_progress,             \* behavior: BotBehavior
     threaten_timeout |-> bot.threaten_timeout]

SaveLoad ==
    /\ phase = "started"
    /\ LET loaded == Visit([target |-> target, health |-> health,
                            state_machine |-> state_machine,
                            impact_handler |-> additional_rotations,
                            in_progress |-> in_progress,
                            threaten_timeout |-> threaten_timeout])
       IN /\ target' = loaded.target
          /\ health' = loaded.health
          /\ state_machine' = loaded.state_machine
          /\ additional_rotations' = loaded.impact_handler
          /\ in_progress' = loaded.in_progress
          /\ threaten_timeout' = loaded.threaten_timeout
    /\ phase' = "created"
    /\ lastImpact' = NoImpact
    /\ UNCHANGED <<absmPresent, absmLayers, activeState, tick, observedThreaten,
                   sceneBones, boneRotation, impactHistory>>
    /\ UNCHANGED levelVars

\* A bot in close combat that is hit, saved and loaded.
NextSave ==
    \/ OnStart
    \/ \E dt \in BotDts, w \in MeleeReadings : OnUpdate(dt, w)
    \/ \E dealer \in Candidates, amount \in DamageAmounts, hitbox \in Hitboxes :
           OnMessage(dealer, amount, hitbox)
    \/ \E s \in 1..Len(RequiredStates) : AnimationUpdate(s)
    \/ SaveLoad

SpecSave == Init /\ [][NextSave]_vars

\* The bot on a rig that stays as it was built.
NextSM ==
    \/ OnStart
    \/ \E dt \in BotDts, w \in WorldReadings : OnUpdate(dt, w)
    \/ \E dealer \in Candidates, amount \in DamageAmounts :
           OnMessage(dealer, amount, NoHitbox)
    \/ \E s \in 1..Len(RequiredStates) : AnimationUpdate(s)

SpecSM == InitSM /\ [][NextSM]_vars

NextImpact ==
    \/ \E handle \in Bones \cup {NONE}, p \in ImpactPoints, d \in ImpactDirections :
           HandleImpact(handle, p, d)
    \/ \E dt \in ImpactDts : UpdateAndApply(dt)

SpecImpact == Init /\ [][NextImpact]_vars

(***************************************************************************)
(* Turret::on_update.  shoot_timer is only ever compared with 0, so 0      *)
(* stands for every value at or under it.                                  *)
(***************************************************************************)
TurretUpdate(dt) ==
    LET shoot_timer == IF turret.shoot_timer - dt <= 0 THEN 0 ELSE turret.shoot_timer - dt
        target_check_timer == turret.target_check_timer - dt
        reselect == ReselectDue(target_check_timer)
        selected == IF reselect
                    THEN [turret EXCEPT !.target = SelectTarget(turret, turretScene),
                                        !.target_check_timer = TargetCheckInterval]
                    ELSE [turret EXCEPT !.target_check_timer = target_check_timer]
        fires == Fires(turretScene, selected, shoot_timer)
        shot == IF fires THEN Shoot(selected)
                ELSE [fired |-> <<>>, barrel_index |-> selected.barrel_index]
    IN /\ turret' = [selected EXCEPT
                         !.shoot_timer = IF fires THEN selected.shoot_interval ELSE shoot_timer,
                         !.barrel_index = shot.barrel_index,
                         !.offsets = IF IsCharacter(turretScene, selected.target)
                                     THEN BarrelsUpdate(BarrelShoot(selected.offsets,
                                                                    shot.fired))
                                     ELSE selected.offsets]
       /\ turretTick' = [op |-> "on_update", reselected |-> reselect,
                         before |-> turret.target, firing |-> fires,
                         fired |-> shot.fired, index_before |-> turret.barrel_index,
                         dt |-> dt,
                         resolved |-> IsCharacter(turretScene, selected.target),
                         aim |-> AimTargets(turretScene, selected)]
       /\ shots' = IF fires
                   THEN LET all == Append(shots, shot.fired)
                        IN IF Len(all) > turret.barrels THEN Tail(all) ELSE all
                   ELSE shots
       /\ UNCHANGED turretScene
       /\ UNCHANGED <<botVars, impactVars, actorVars, eventVars, doorVars, weaponVars>>

\* The scene: a living actor moves, dies, or a node is removed.
SceneChange(a, state, distance) ==
    /\ turretScene[a].state \notin {"removed"}
    /\ turretScene[a].state = "dead" => state = "removed"
    /\ state \in {"dead", "removed"} => distance = 1
    /\ [state |-> state, distance |-> distance] #
           [state |-> turretScene[a].state, distance |-> turretScene[a].distance]
    /\ turretScene' = [turretScene EXCEPT ![a].state = state, ![a].distance = distance]
    /\ turretTick' = NoTurretTick
    /\ UNCHANGED <<turret, shots>>
    /\ UNCHANGED <<botVars, impactVars, actorVars, eventVars, doorVars, weaponVars>>

ActorStates == {"clear", "occluded", "outside", "dead", "removed"}
ActorDistances == {1, 2}

NextTurret ==
    \/ \E dt \in 1..MaxTurretDt : TurretUpdate(dt)
    \/ \E a \in TurretActors, state \in ActorStates, distance \in ActorDistances :
           SceneChange(a, state, distance)

\* A turret with one barrel row, of any hostility.
InitTurret ==
    /\ InitBot
    /\ InitImpact
    /\ absmPresent = TRUE
    /\ absmLayers = CompleteLayers
    /\ activeState = 1
    /\ InitScene
    /\ InitActors
    /\ InitDoors
    /\ InitWeapons
    /\ InitEvents
    /\ \E h \in {"Player", "Monsters", "All"} :
           turret = [DefaultTurret EXCEPT !.hostility = h, !.barrels = 1,
                                     !.offsets = RestingBarrels(1)]

SpecTurret == InitTurret /\ [][NextTurret]_vars

\* A turret hostile to all, of either shoot mode and any number of barrels.
InitBarrels ==
    /\ InitBot
    /\ InitImpact
    /\ absmPresent = TRUE
    /\ absmLayers = CompleteLayers
    /\ activeState = 1
    /\ InitScene
    /\ InitActors
    /\ InitDoors
    /\ InitWeapons
    /\ InitEvents
    /\ \E m \in {"Consecutive", "Simultaneously"}, n \in 0..MaxBarrels :
           turret = [DefaultTurret EXCEPT !.hostility = "All", !.shoot_mode = m,
                                          !.barrels = n,
                                          !.offsets = RestingBarrels(n)]

\* ... with one actor that comes into view and goes.
NextBarrels ==
    \/ \E dt \in 1..MaxTurretDt : TurretUpdate(dt)
    \/ \E state \in ActorStates, distance \in ActorDistances :
           SceneChange(1, state, distance)

SpecBarrels == InitBarrels /\ [][NextBarrels]_vars

(***************************************************************************)
(* ActorContainer: add and free; a bot of the container is given a target  *)
(* that resolves (Bot::set_target from a damage dealer it could look up).  *)
(***************************************************************************)
Add(kind) ==
    /\ \E h \in ActorHandles :
           /\ pool[h].kind = "Unused"
           /\ \A g \in ActorHandles : g < h => pool[g].kind # "Unused"
           /\ pool' = [pool EXCEPT ![h] = [kind |-> kind, target |-> NoTarget]]
    /\ lastFree' = NoFree
    /\ frame' = NoFrame
    /\ UNCHANGED bodies
    /\ UNCHANGED <<botVars, impactVars, turretVars, eventVars, doorVars, weaponVars>>

SetTarget(bot, handle, position) ==
    /\ IsBot(pool, bot)
    /\ IsValidHandle(pool, handle)
    /\ pool' = [pool EXCEPT ![bot].target = [handle |-> handle, position |-> position]]
    /\ lastFree' = NoFree
    /\ UNCHANGED <<bodies, frame>>
    /\ UNCHANGED <<botVars, impactVars, turretVars, eventVars, doorVars, weaponVars>>

Free(actor_handle) ==
    /\ IsValidHandle(pool, actor_handle)
    /\ pool' = FreePool(pool, actor_handle)
    /\ lastFree' = [op |-> "free", handle |-> actor_handle, before |-> pool]
    /\ UNCHANGED <<bodies, frame>>
    /\ UNCHANGED <<botVars, impactVars, turretVars, eventVars, doorVars, weaponVars>>

NextActors ==
    \/ \E kind \in {"Bot", "Player"} : Add(kind)
    \/ \E bot \in ActorHandles, handle \in ActorHandles, position \in Positions :
           SetTarget(bot, handle, position)
    \/ \E actor_handle \in ActorHandles : Free(actor_handle)

SpecActors == Init /\ [][NextActors]_vars

\* ActorContainer::update: the descriptors are taken first, then every actor
\* is updated in the pool's order; moves[h] is where h's own update puts it.
Update(moves) ==
    /\ \A h \in ActorHandles : ~IsValidHandle(pool, h) => moves[h] = bodies[h].position
    /\ LET target_descriptors == TargetDescriptors(pool, bodies)
           r == UpdateLoop(1, pool, target_descriptors, bodies,
                           [h \in ActorHandles |-> <<>>], moves)
       IN /\ bodies' = r.bodies
          /\ frame' = [op |-> "update", before |-> bodies, observed |-> r.observed]
    /\ UNCHANGED <<pool, lastFree>>
    /\ UNCHANGED <<botVars, impactVars, turretVars, eventVars, doorVars, weaponVars>>

\* Between two frames an actor is damaged to death.
ActorDies(h) ==
    /\ IsValidHandle(pool, h)
    /\ ~ActorIsDead(bodies[h])
    /\ bodies' = [bodies EXCEPT ![h].health = 0]
    /\ frame' = NoFrame
    /\ UNCHANGED <<pool, lastFree>>
    /\ UNCHANGED <<botVars, impactVars, turretVars, eventVars, doorVars, weaponVars>>

\* Level::damage_actor: the pool after the call, the bot's target set from
\* the arguments of its call of set_target
DamageActorPool(p, b, actor_handle, who) ==
    IF IsBot(p, actor_handle) /\ who # NONE
    THEN [p EXCEPT ![actor_handle].target =
              [handle |-> actor_handle, position |-> b[who].position]]
    ELSE p

DamageActor(actor_handle, who, amount) ==
    /\ actor_handle \in ActorHandles => bodies[actor_handle].health - amount >= -HealthFloor
    /\ IF IsValidHandle(pool, actor_handle) /\ (who = NONE \/ IsValidHandle(pool, who))
       THEN /\ pool' = DamageActorPool(pool, bodies, actor_handle, who)
            /\ bodies' = [bodies EXCEPT ![actor_handle].health = @ - amount]
       ELSE UNCHANGED <<pool, bodies>>
    /\ lastFree' = NoFree
    /\ frame' = NoFrame
    /\ UNCHANGED <<botVars, impactVars, turretVars, eventVars, doorVars, weaponVars>>

\* Actors that are added, move, and damage one another.
NextDamage ==
    \/ \E kind \in {"Bot", "Player"} : Add(kind)
    \/ \E moves \in [ActorHandles -> BodyPositions] : Update(moves)
    \/ \E actor_handle \in ActorHandles, who \in {NONE} \cup ActorHandles :
           DamageActor(actor_handle, who, 1)

SpecDamage == Init /\ [][NextDamage]_vars

(***************************************************************************)
(* The level's weapons and projectiles (src/src/level.rs).                 *)
(***************************************************************************)
GiveNewWeapon(actor) ==
    /\ IsValidHandle(pool, actor)
    /\ \E slot \in WeaponSlots :
           /\ ~weapons[slot].alive
           /\ weapons[slot].generation <= MaxGeneration
           /\ weapons' = [weapons EXCEPT ![slot].alive = TRUE, ![slot].owner = actor]
    /\ lastRemoval' = NoRemoval
    /\ UNCHANGED projectiles
    /\ UNCHANGED <<botVars, impactVars, turretVars, actorVars, eventVars, doorVars>>

CreateProjectile(owner) ==
    /\ Len(projectiles) < MaxProjectiles
    /\ projectiles' = Append(projectiles, owner)
    /\ lastRemoval' = NoRemoval
    /\ UNCHANGED weapons
    /\ UNCHANGED <<botVars, impactVars, turretVars, actorVars, eventVars, doorVars>>

RemoveActor(actor) ==
    /\ IsValidHandle(pool, actor)
    /\ LET list == WeaponsOf(weapons, actor, 1)
           level == RemoveWeapons([weapons |-> weapons, projectiles |-> projectiles], list)
       IN /\ weapons' = level.weapons
          /\ projectiles' = level.projectiles
          /\ lastRemoval' = [op |-> "remove_actor", removed |-> list,
                             before |-> projectiles]
    /\ pool' = FreePool(pool, actor)
    /\ lastFree' = [op |-> "free", handle |-> actor, before |-> pool]
    /\ UNCHANGED <<bodies, frame>>
    /\ UNCHANGED <<botVars, impactVars, turretVars, eventVars, doorVars>>

\* Actors that are given weapons, shoot projectiles, and are removed.
NextWeapons ==
    \/ Add("Player")
    \/ \E actor \in ActorHandles : GiveNewWeapon(actor)
    \/ \E owner \in {NoWeapon} \cup {h \in WeaponHandles : WeaponsContains(weapons, h)} :
           CreateProjectile(owner)
    \/ \E actor \in ActorHandles : RemoveActor(actor)

SpecWeapons == Init /\ [][NextWeapons]_vars

(***************************************************************************)
(* The door's calls.                                                       *)
(***************************************************************************)
TryOpen(inventory) ==
    /\ door' = DoorTryOpen(door, inventory).door
    /\ doorTick' = [NoDoorTick EXCEPT !.op = "try_open", !.before = door,
                                      !.inventory = inventory,
                                      !.messages = DoorTryOpen(door, inventory).messages]
    /\ UNCHANGED <<botVars, impactVars, turretVars, actorVars, eventVars, weaponVars>>

DoorContainerUpdate(near, dt) ==
    /\ door' = DoorUpdated(door, near, dt).door
    /\ doorTick' = [NoDoorTick EXCEPT !.op = "update", !.before = door, !.dt = dt,
                                      !.near = near,
                                      !.closing = DoorUpdated(door, near, dt).closing,
                                      !.messages = DoorUpdated(door, near, dt).messages]
    /\ UNCHANGED <<botVars, impactVars, turretVars, actorVars, eventVars, weaponVars>>

\* A door of any state and opening, as Door::new makes it.
InitDoor ==
    /\ InitBot
    /\ InitImpact
    /\ absmPresent = TRUE
    /\ absmLayers = CompleteLayers
    /\ activeState = 1
    /\ turret = DefaultTurret
    /\ InitScene
    /\ pool = [h \in ActorHandles |-> Vacant("Unused")]
    /\ lastFree = NoFree
    /\ bodies = [h \in ActorHandles |-> FreshBody]
    /\ frame = NoFrame
    /\ InitEvents
    /\ InitWeapons
    /\ \E state \in DoorStates, open_offset_amount \in OpenOffsets :
           door = DoorNew(state, open_offset_amount)
    /\ doorTick = NoDoorTick

NextDoor ==
    \/ \E inventory \in Inventories : TryOpen(inventory)
    \/ \E near \in SUBSET ActorDoorDistances, dt \in DoorDts : DoorContainerUpdate(near, dt)

SpecDoor == InitDoor /\ [][NextDoor]_vars

\* Level::update calls DoorContainer::update every frame, with a dt above zero.
SpecDoorFair ==
    /\ SpecDoor
    /\ WF_vars(\E near \in SUBSET ActorDoorDistances, dt \in DoorDts \ {0} :
                   DoorContainerUpdate(near, dt))

NextFrame ==
    \/ \E kind \in {"Bot", "Player"} : Add(kind)
    \/ \E moves \in [ActorHandles -> BodyPositions] : Update(moves)
    \/ \E h \in ActorHandles : ActorDies(h)

SpecFrame == Init /\ [][NextFrame]_vars

\* The handler on a scene that loses bones.
NextStale ==
    \/ \E handle \in Bones \cup {NONE}, p \in ImpactPoints, d \in ImpactDirections :
           HandleImpact(handle, p, d)
    \/ \E dt \in ImpactDts : UpdateAndApply(dt)
    \/ \E b \in Bones : RemoveBone(b)

SpecStale == Init /\ [][NextStale]_vars


(***************************************************************************)
(* Reading the last tick.                                                  *)
(***************************************************************************)
WasTicked(n) == Ticked(tick.log, n)

LastStatus(n) == StatusOf(tick.log, n)

\* Position of node n's return in the last tick's log.
ReturnedAt(n) == CHOOSE i \in 1..Len(tick.log) : tick.log[i].node = n

HasTicked == tick.status # "None"

Leaves == {"IsDead", "StayDead", "FindTarget", "AimOnTarget", "NeedsThreatenTarget",
           "ThreatenTarget", "CanShootTarget", "MoveToShoot", "ShootTarget",
           "MoveToMelee", "CanMeleeAttack", "DoMeleeAttack"}

TickedLeaves == {n \in Leaves : WasTicked(n)}

ShootLeaves == {"CanShootTarget", "MoveToShoot", "ShootTarget"}

MeleeLeaves == {"MoveToMelee", "CanMeleeAttack", "DoMeleeAttack"}

CombatLeaves ==
    {"AimOnTarget", "NeedsThreatenTarget", "ThreatenTarget"} \cup ShootLeaves \cup MeleeLeaves

\* The nodes BotBehavior::new builds with new_sequence, and its two selectors.
SequenceNodes == {"DeadSeq", "MainSeq", "CombatSeq", "ThreatSeq", "ShootSeq", "MeleeSeq"}

SelectorNodes == {"Entry", "CombatSel"}

\* Node n ticked its children left to right up to the first one whose status is
\* in `stops`, returned that status, and returned `otherwise` if there was none.
EvaluatedInOrder(n, stops, otherwise) ==
    LET children == BehaviorTree.nodes[n].children IN
    \E k \in 1..Len(children) :
        /\ \A i \in 1..k : WasTicked(children[i])
        /\ \A i \in (k + 1)..Len(children) : ~WasTicked(children[i])
        /\ \A i \in 1..(k - 1) : LastStatus(children[i]) \notin stops
        /\ \A i \in 1..(k - 1) : ReturnedAt(children[i]) < ReturnedAt(children[i + 1])
        /\ ReturnedAt(children[k]) < ReturnedAt(n)
        /\ IF LastStatus(children[k]) \in stops
           THEN LastStatus(n) = LastStatus(children[k])
           ELSE k = Len(children) /\ LastStatus(n) = otherwise

\* C1: a ticked Sequence of the bot's tree ticks its children left to right, ends
\* at the first child that returns Failure or Running with that status, ticks no
\* later child, and returns Success only if every child returned Success.
C1_SequenceSemantics ==
    \A n \in SequenceNodes :
        WasTicked(n) => EvaluatedInOrder(n, {Failure, Running}, Success)

\* A Sequence was cut short by a Failure, another by a Running child, and one
\* ran all its children to Success.
C1_Witness ==
    /\ LastStatus("NeedsThreatenTarget") = Failure /\ LastStatus("ThreatSeq") = Failure
    /\ LastStatus("CanShootTarget") = Success
    /\ LastStatus("MoveToShoot") = Success
    /\ LastStatus("ShootTarget") = Success /\ LastStatus("ShootSeq") = Success
    /\ LastStatus("MainSeq") = Success

\* C2: a ticked Selector of the bot's tree ticks its children left to right, ends
\* at the first child that returns Success or Running with that status, ticks no
\* later sibling, and returns Failure only if every child returned Failure.
C2_SelectorSemantics ==
    \A n \in SelectorNodes :
        WasTicked(n) => EvaluatedInOrder(n, {Success, Running}, Failure)

\* The combat selector went past two failed branches and stopped at the third.
C2_Witness ==
    /\ LastStatus("ThreatSeq") = Failure
    /\ LastStatus("ShootSeq") = Failure
    /\ LastStatus("MeleeSeq") = Running
    /\ LastStatus("CombatSel") = Running
    /\ LastStatus("DeadSeq") = Failure

\* C3: in a tick of a bot whose health is <= 0 only IsDead and StayDead are
\* ticked, the root returns Running and the outputs keep their defaults.
C3_DeadBranchOnly ==
    (HasTicked /\ tick.health <= 0) =>
        /\ TickedLeaves = {"IsDead", "StayDead"}
        /\ LastStatus("Entry") = Running
        /\ tick.status = Running
        /\ tick.out = DefaultOutputs
        /\ ~tick.out.is_moving /\ ~tick.out.need_to_melee_attack
        /\ ~tick.out.is_melee_attack /\ ~tick.out.is_aiming_weapon
        /\ ~tick.out.is_screaming
        /\ tick.out.movement_speed_factor = DefaultSpeedFactor

\* A dead bot with a target was ticked.
C3_Witness ==
    /\ HasTicked /\ tick.health <= 0 /\ target # NoTarget
    /\ LastStatus("StayDead") = Running

\* C4: in a tick of a living bot in which FindTarget does not return Success, no
\* combat leaf is ticked and the root returns FindTarget's status.
C4_NoTargetNoCombat ==
    (HasTicked /\ tick.health > 0 /\ LastStatus("FindTarget") # Success) =>
        /\ LastStatus("FindTarget") \in {Failure, Running}
        /\ TickedLeaves \cap CombatLeaves = {}
        /\ tick.status = LastStatus("FindTarget")

\* A living bot that already had a target found no candidate in a tick.
C4_Witness ==
    /\ HasTicked /\ tick.health > 0 /\ target # NoTarget
    /\ LastStatus("FindTarget") = Failure /\ tick.status = Failure

\* C5: in a tick in which NeedsThreatenTarget returns Success and ThreatenTarget
\* returns Running or Success, no shoot-branch and no melee-branch leaf is ticked.
C5_ThreatenPreempts ==
    (LastStatus("NeedsThreatenTarget") = Success
     /\ LastStatus("ThreatenTarget") \in {Running, Success}) =>
        TickedLeaves \cap (ShootLeaves \cup MeleeLeaves) = {}

\* ThreatenTarget completed in a tick.
C5_Witness ==
    /\ LastStatus("NeedsThreatenTarget") = Success
    /\ LastStatus("ThreatenTarget") = Success
    /\ LastStatus("CombatSel") = Success

C7_SuccessNeedsEntry ==
    LastStatus("ThreatenTarget") = Success =>
        /\ tick.layer.available
        /\ tick.layer.active_state # state_machine.threaten_state
        /\ tick.observed_before
        /\ tick.in_progress_before
        /\ ~in_progress
        /\ ~observedThreaten

\* A Success of a later threaten cycle: the timeout before it was one drawn by
\* an earlier Success and counted down.
C7_Witness ==
    /\ LastStatus("ThreatenTarget") = Success
    /\ tick.timeout_before < 0
    /\ tick.timeout_before % (FrameLength * Second) # 0

\* C8: in the tick in which ThreatenTarget reports Success the tree leaves
\* threaten_timeout in [20, 60) seconds; in every other tick the tree leaves
\* threaten_timeout as it found it.
C8_TimeoutRange ==
    HasTicked =>
        IF LastStatus("ThreatenTarget") = Success
        THEN /\ tick.timeout_before <= 0
             /\ tick.timeout_after >= ThreatenTimeoutMin * Second
             /\ tick.timeout_after < ThreatenTimeoutMax * Second
        ELSE tick.timeout_after = tick.timeout_before

\* A threaten cycle completed and the update went on to count the new timeout down.
C8_Witness ==
    /\ LastStatus("ThreatenTarget") = Success
    /\ tick.timeout_before <= 0
    /\ phase = "started"
    /\ threaten_timeout = tick.timeout_after - FrameLength * Second
    /\ threaten_timeout < ThreatenTimeoutMin * Second

\* The rig has the UpperBody layer where the adapter expects it, with all four states.
RigComplete ==
    /\ Len(absmLayers) > UPPER_BODY_LAYER_INDEX
    /\ absmLayers[UPPER_BODY_LAYER_INDEX + 1].name = "UpperBody"
    /\ \A i \in 1..Len(RequiredStates) :
           \E j \in 1..Len(absmLayers[UPPER_BODY_LAYER_INDEX + 1].states) :
               absmLayers[UPPER_BODY_LAYER_INDEX + 1].states[j] = RequiredStates[i]

\* Handle h names the state called name of the upper-body layer.
Resolves(h, name) ==
    /\ h # NONE
    /\ h \in 1..Len(absmLayers[UPPER_BODY_LAYER_INDEX + 1].states)
    /\ absmLayers[UPPER_BODY_LAYER_INDEX + 1].states[h] = name

\* C9: a bot runs only with a StateMachine whose ABSM, UpperBody layer and four
\* state handles all resolved; on any other rig on_start fails and leaves no
\* StateMachine behind.
C9_AllOrNothing ==
    /\ phase = "started" =>
           /\ RigComplete
           /\ state_machine.absm = AbsmNode
           /\ Resolves(state_machine.aim_state, "Aim")
           /\ Resolves(state_machine.attack_state, "MeleeAttack")
           /\ Resolves(state_machine.threaten_state, "Threaten")
           /\ Resolves(state_machine.dead_state, "Dead")
           /\ absmPresent
    /\ (phase # "created" /\ ~(absmPresent /\ RigComplete)) =>
           phase = "crashed" /\ state_machine = DefaultStateMachine /\ ~HasTicked
    /\ HasTicked => state_machine # DefaultStateMachine

\* A bot on a complete rig was started and ticked.
C9_Witness ==
    /\ phase = "started" /\ HasTicked
    /\ state_machine.threaten_state = 3

\* on_start failed on a rig that lacks only the Threaten state.
C9_WitnessFailure ==
    /\ phase = "crashed" /\ absmPresent
    /\ Len(absmLayers) > UPPER_BODY_LAYER_INDEX
    /\ absmLayers[UPPER_BODY_LAYER_INDEX + 1] = Layer("UpperBody", <<"Aim", "MeleeAttack", "Dead">>)

\* C10: the impact map holds at most one entry per bone, and handle_impact with
\* a non-degenerate axis leaves its bone with exactly the new rotation at k = 0.
C10_OneEntryPerBone ==
    /\ \A e1, e2 \in additional_rotations : e1.bone = e2.bone => e1 = e2
    /\ (lastImpact.op = "handle_impact" /\ lastImpact.axis # ZeroVector) =>
           {e \in additional_rotations : e.bone = lastImpact.handle}
               = {[bone |-> lastImpact.handle, k |-> 0,
                   source |-> [axis |-> lastImpact.axis, angle |-> ImpactAngle]]}

\* An impact hit a bone whose entry had progressed and had another rotation.
C10_Witness ==
    /\ lastImpact.op = "handle_impact" /\ lastImpact.axis # ZeroVector
    /\ \E e \in lastImpact.prior : e.k > 0 /\ e.source.axis # lastImpact.axis
    /\ Cardinality(additional_rotations) = NumBones

(***************************************************************************)
(* Impact decay.                                                           *)
(***************************************************************************)
Decayed(b) == impactHistory[b].hit /\ impactHistory[b].elapsed >= Second

\* C11: a bone that handle_impact gave an entry stays affected exactly while
\* the dt added by update_and_apply since that impact is under one second: the
\* call that brings the sum to one second removes the entry, and is_affected
\* stays false until the bone is hit again.
C11_EntryRemovedAfterOneSecond ==
    \A b \in Bones :
        impactHistory[b].hit =>
            (IsAffected(additional_rotations, b) <=> impactHistory[b].elapsed < Second)

\* A bone's entry has just been removed while another bone's is still in the map.
C11_Witness ==
    /\ lastImpact.op = "update_and_apply"
    /\ \E b \in Bones : Decayed(b) /\ ~IsAffected(additional_rotations, b)
    /\ \E b \in Bones : impactHistory[b].hit /\ IsAffected(additional_rotations, b)
                          /\ impactHistory[b].elapsed > 0

\* C12 as stated: once update_and_apply has added one second since the impact,
\* the bone's local rotation is the one it had before the impact.
C12_RotationRestored ==
    \A b \in Bones : Decayed(b) => boneRotation[b] = impactHistory[b].pre

\* C12 amended: once update_and_apply has added one second since the impact,
\* the bone's local rotation is its rotation before the impact turned about
\* the impact's axis by at least the full 24 degrees, and update_and_apply
\* leaves the rotation of a bone without an entry as it is.
C12_TurnStays ==
    /\ [](\A b \in Bones :
            Decayed(b) =>
                \E a \in ImpactAngle..MaxTurn :
                    boneRotation[b] = Compose(impactHistory[b].pre,
                                              [axis |-> impactHistory[b].axis, angle |-> a]))
    /\ [][\A b \in Bones :
            (~IsAffected(additional_rotations, b) /\ ~IsAffected(additional_rotations', b))
                => boneRotation'[b] = boneRotation[b]]_vars

\* A bone's entry has decayed over several calls and the bone is left turned.
C12_Witness ==
    \E b \in Bones :
        /\ Decayed(b) /\ ~IsAffected(additional_rotations, b)
        /\ impactHistory[b].pre = Identity
        /\ TurnOf(boneRotation[b]) > ImpactAngle

\* C13: a bone handle that is not in the scene is skipped: handle_impact on it
\* leaves the map as it was, and no call of the handler panics.
C13_StaleBoneIgnored ==
    [][/\ phase' # "crashed"
       /\ (lastImpact'.op = "handle_impact" /\ lastImpact'.handle \notin sceneBones)
              => additional_rotations' = additional_rotations]_vars

(***************************************************************************)
(* The turret's last update, read against the scene it ran in.             *)
(***************************************************************************)
AfterTurretUpdate == turretTick.op = "on_update"

AfterReselection == AfterTurretUpdate /\ turretTick.reselected

\* the hostility rule: Player, players only; Monsters, never a player; All, any
HostileTo(a) ==
    CASE turret.hostility = "Player" -> turretScene[a].is_player
      [] turret.hostility = "Monsters" -> ~turretScene[a].is_player
      [] OTHER -> TRUE

\* alive, inside the frustum and in line of sight
InView(a) == a \in TurretActors /\ turretScene[a].state = "clear"

ValidTargets == {a \in TurretActors : InView(a) /\ HostileTo(a)}

Nearest(S) == {a \in S : \A b \in S : turretScene[a].distance <= turretScene[b].distance}

\* C14: a re-selection that does not keep the current target leaves the
\* nearest valid actor as the target, and no target only if no actor is valid.
C14_NearestValidChosen ==
    (AfterReselection /\ turret.target # turretTick.before) =>
        IF ValidTargets = {} THEN turret.target = NONE
        ELSE turret.target \in Nearest(ValidTargets)

\* C15: a re-selection whose current target is still alive and valid keeps it.
C15_ValidTargetKept ==
    (AfterReselection /\ turretTick.before \in ValidTargets) =>
        turret.target = turretTick.before

\* C16 as stated: after every turret update a set target is alive, inside the
\* frustum and in line of sight.
C16_TargetAlwaysInView ==
    (AfterTurretUpdate /\ turret.target # NONE) => InView(turret.target)

\* C16 amended: after every turret update that re-selected the target a set
\* target is alive, inside the frustum and in line of sight; an update that
\* does not re-select leaves the target handle as it was.
C16_TargetInViewAfterReselection ==
    /\ (AfterReselection /\ turret.target # NONE) => InView(turret.target)
    /\ (AfterTurretUpdate /\ ~turretTick.reselected) => turret.target = turretTick.before

\* A re-selection took an actor in view although an actor outside the frustum
\* is as near; a later update kept the target without looking.
C16_Witness ==
    /\ AfterReselection
    /\ turret.target # NONE
    /\ \E a \in TurretActors :
           /\ a # turret.target /\ HostileTo(a) /\ turretScene[a].state = "outside"
           /\ turretScene[a].distance <= turretScene[turret.target].distance

Count(seq, x) == Cardinality({i \in 1..Len(seq) : seq[i] = x})

LastShots(n) == SubSeq(shots, Len(shots) - n + 1, Len(shots))

C18_SimultaneouslyFiresAll ==
    (turret.shoot_mode = "Simultaneously" /\ AfterTurretUpdate /\ turretTick.firing) =>
        /\ Len(turretTick.fired) = turret.barrels
        /\ \A b \in 0..(turret.barrels - 1) : Count(turretTick.fired, b) = 1
        /\ turret.barrel_index = turretTick.index_before

\* A turret with every barrel has fired them all twice.
C18_Witness ==
    /\ turret.shoot_mode = "Simultaneously" /\ turret.barrels = MaxBarrels
    /\ AfterTurretUpdate /\ turretTick.firing
    /\ Len(turretTick.fired) = MaxBarrels
    /\ Len(shots) >= 2

(***************************************************************************)
(* Targets of the container's bots.                                        *)
(***************************************************************************)
Bots == {h \in ActorHandles : IsBot(pool, h)}

\* C19: no bot of the container has a target whose handle has been freed;
\* free(h) has cleared the target of exactly the bots that targeted h and left
\* every other bot's target as it was.
C19_NoTargetOnRemovedActor ==
    /\ \A b \in Bots :
           pool[b].target # NoTarget => IsValidHandle(pool, pool[b].target.handle)
    /\ lastFree.op = "free" =>
           \A b \in Bots :
               pool[b].target =
                   IF lastFree.before[b].target.handle = lastFree.handle
                   THEN NoTarget ELSE lastFree.before[b].target

\* free(h) cleared one bot's target and left another bot's target alone.
C19_Witness ==
    /\ lastFree.op = "free"
    /\ \E b \in Bots : lastFree.before[b].target.handle = lastFree.handle
    /\ \E b \in Bots : pool[b].target # NoTarget


(***************************************************************************)
(* C20: in a bot update that handles animation events, the melee Damage    *)
(* messages sent are one per "Hit" event of the upper body layer, each     *)
(* from this bot to its current target with amount 20 and is_melee set,    *)
(* if the bot has a target and the tick reported a melee attack; and none  *)
(* otherwise.                                                              *)
(***************************************************************************)
C20_HitSendsMeleeDamage ==
    (HasTicked /\ lastEvents.handled /\ phase = "started") =>
        /\ lastEvents.is_melee_attacking = tick.out.is_melee_attack
        /\ IF lastEvents.target # NoTarget /\ lastEvents.is_melee_attacking
           THEN /\ Len(lastEvents.messages) = lastEvents.hits
                /\ \A i \in 1..Len(lastEvents.messages) :
                       /\ lastEvents.messages[i].character = lastEvents.target.handle
                       /\ lastEvents.messages[i].dealer = BotHandle
                       /\ lastEvents.messages[i].amount = MeleeDamage
                       /\ lastEvents.messages[i].is_melee
           ELSE lastEvents.messages = <<>>

C20_Witness ==
    /\ HasTicked /\ lastEvents.handled
    /\ lastEvents.target # NoTarget /\ lastEvents.is_melee_attacking
    /\ lastEvents.hits > 1
    /\ Len(lastEvents.messages) = lastEvents.hits


(***************************************************************************)
(* C21: a bot update that reaches handle_animation_events (the only step   *)
(* that moves threaten_timeout) collects exactly the events pending since  *)
(* the last clear and leaves the animation player without pending events,  *)
(* so no emitted event is collected by two updates and the Damage messages *)
(* of an update never outnumber the "Hit" events emitted since the one     *)
(* before.                                                                 *)
(***************************************************************************)
C21_EventsNotRedelivered ==
    [][threaten_timeout' # threaten_timeout =>
           /\ lastEvents'.handled
           /\ pendingEvents' = <<>>
           /\ lastEvents'.hits = Count(pendingEvents, HIT_SIGNAL)
           /\ Len(lastEvents'.messages) <= Count(pendingEvents, HIT_SIGNAL)]_vars

C21_Witness ==
    /\ lastEvents.handled
    /\ lastEvents.hits >= 1
    /\ Len(lastEvents.messages) >= 1
    /\ pendingEvents = <<>>
    /\ phase = "started"

C23_RoundTripSameOutputs ==
    [][(phase = "started" /\ phase' = "created") =>
           /\ target' = target
           /\ health' = health
           /\ threaten_timeout' = threaten_timeout
           /\ in_progress' = in_progress
           /\ \A dt \in ImpactDts :
                  /\ UpdateAndApplyMap(additional_rotations', dt) =
                         UpdateAndApplyMap(additional_rotations, dt)
                  /\ UpdateAndApplyBones(boneRotation', additional_rotations', dt) =
                         UpdateAndApplyBones(boneRotation, additional_rotations, dt)]_vars

\* The contexts NeedsThreatenTarget can be ticked with in the bot's state:
\* FindTarget and AimOnTarget have run before it.
ThreatenContexts ==
    {[TickContext EXCEPT !.target = t, !.out.is_aiming_weapon = TRUE,
                         !.log = <<[node |-> "FindTarget", status |-> Success],
                                   [node |-> "AimOnTarget", status |-> Success]>>]
         : t \in Candidates \ {NoTarget}}

(***************************************************************************)
(* C24: NeedsThreatenTarget returns Success if threaten_timeout <= 0 and   *)
(* Failure otherwise and hands back the context it was given; in a tick in *)
(* which it was ticked its status follows the timeout the tick started     *)
(* with, and when it returned Failure the tick left the timeout, the       *)
(* scream flag and ThreatenTarget's in_progress as they were.              *)
(***************************************************************************)
C24_NeedsThreatenIsPure ==
    /\ \A c \in ThreatenContexts :
           NeedsThreatenTargetTick(c) =
               Result(IF threaten_timeout <= 0 THEN Success ELSE Failure, c)
    /\ WasTicked("NeedsThreatenTarget") =>
           /\ LastStatus("NeedsThreatenTarget") =
                  IF tick.timeout_before <= 0 THEN Success ELSE Failure
           /\ LastStatus("NeedsThreatenTarget") = Failure =>
                  /\ tick.timeout_after = tick.timeout_before
                  /\ ~tick.out.is_screaming
                  /\ in_progress = tick.in_progress_before
                  /\ ~WasTicked("ThreatenTarget")

\* Both answers: at a timeout that has run out to the unit, and at one that
\* is still running.
C24_Witness ==
    /\ LastStatus("NeedsThreatenTarget") = Success
    /\ tick.timeout_before = 0
    /\ tick.timeout_after = 0

C24_WitnessFailure ==
    /\ LastStatus("NeedsThreatenTarget") = Failure
    /\ tick.timeout_before > 0

\* The upper-body layer as the last tick found it.
InThreatenState ==
    tick.layer.available /\ tick.layer.active_state = state_machine.threaten_state

OutOfThreatenState ==
    tick.layer.available /\ tick.layer.active_state # state_machine.threaten_state

(***************************************************************************)
(* C25: a tick raises is_screaming exactly when it ticks ThreatenTarget    *)
(* with the upper-body layer available, out of the threaten state and      *)
(* in_progress clear, and ThreatenTarget then returns Running and leaves   *)
(* in_progress clear; ticked in the threaten state it returns Running,     *)
(* sets in_progress and does not raise is_screaming.                       *)
(***************************************************************************)
C25_ScreamsUntilThreatenState ==
    HasTicked =>
        /\ tick.out.is_screaming <=>
               /\ WasTicked("ThreatenTarget")
               /\ OutOfThreatenState
               /\ ~tick.in_progress_before
        /\ tick.out.is_screaming =>
               LastStatus("ThreatenTarget") = Running /\ ~in_progress
        /\ (WasTicked("ThreatenTarget") /\ InThreatenState) =>
               /\ LastStatus("ThreatenTarget") = Running
               /\ in_progress
               /\ ~tick.out.is_screaming

\* The tick that first finds the layer in the threaten state, after a scream.
C25_Witness ==
    /\ WasTicked("ThreatenTarget") /\ InThreatenState
    /\ ~tick.in_progress_before /\ in_progress
    /\ LastStatus("ThreatenTarget") = Running

C25_WitnessScream ==
    /\ WasTicked("ThreatenTarget") /\ OutOfThreatenState
    /\ tick.out.is_screaming
    /\ LastStatus("ThreatenTarget") = Running

(***************************************************************************)
(* C26: ticked with the upper-body layer unavailable, ThreatenTarget       *)
(* returns Failure and the tick leaves in_progress, threaten_timeout and   *)
(* is_screaming as they were; the combat Selector goes on to the shoot     *)
(* branch in the same tick.                                                *)
(***************************************************************************)
C26_UnavailableLayerFails ==
    (WasTicked("ThreatenTarget") /\ ~tick.layer.available) =>
        /\ LastStatus("ThreatenTarget") = Failure
        /\ in_progress = tick.in_progress_before
        /\ tick.timeout_after = tick.timeout_before
        /\ ~tick.out.is_screaming
        /\ LastStatus("ThreatSeq") = Failure
        /\ WasTicked("ShootSeq") /\ WasTicked("CanShootTarget")
        /\ ReturnedAt("ThreatSeq") < ReturnedAt("CanShootTarget")

\* The layer was lost in the middle of a threaten cycle.
C26_Witness ==
    /\ WasTicked("ThreatenTarget") /\ ~tick.layer.available
    /\ tick.in_progress_before
    /\ LastStatus("CanShootTarget") = Success

(***************************************************************************)
(* C27: threaten_timeout moves only in an update that completes: the tick  *)
(* starts from the stored value, a Success of ThreatenTarget leaves at     *)
(* least 20 s on it before the update's dt comes off, and while the value  *)
(* is above 0 the tick has NeedsThreatenTarget fail (if it gets to it),    *)
(* does not tick ThreatenTarget and the update takes exactly dt off.  So   *)
(* after a Success the bot does not threaten until the dt of the updates   *)
(* since has added up to the value drawn.                                  *)
(***************************************************************************)
C27_NoThreatenForTwentySeconds ==
    [][threaten_timeout' # threaten_timeout =>
           /\ tick'.timeout_before = threaten_timeout
           /\ StatusOf(tick'.log, "ThreatenTarget") = Success =>
                  \E dt \in BotDts :
                      /\ threaten_timeout' + dt >= ThreatenTimeoutMin * Second
                      /\ threaten_timeout' + dt = tick'.timeout_after
           /\ threaten_timeout > 0 =>
                  /\ StatusOf(tick'.log, "NeedsThreatenTarget") \in {Failure, "NotTicked"}
                  /\ ~Ticked(tick'.log, "ThreatenTarget")
                  /\ \E dt \in BotDts : threaten_timeout' = threaten_timeout - dt]_vars

\* The last update of a quiet period: the timeout was still running when the
\* tick began and has run out now.
C27_Witness ==
    /\ LastStatus("NeedsThreatenTarget") = Failure
    /\ tick.timeout_before > 0
    /\ threaten_timeout <= 0
    /\ phase = "started"

(***************************************************************************)
(* C28: an update that reaches handle_animation_events with a "Dead" event *)
(* pending on the upper body layer and a ragdoll node that resolves leaves *)
(* the ragdoll active, and no step takes an active ragdoll back.           *)
(***************************************************************************)
C28_RagdollStaysActive ==
    [][/\ (/\ threaten_timeout' # threaten_timeout
           /\ ragdoll.present
           /\ \E i \in 1..Len(pendingEvents) : pendingEvents[i] = "Dead")
          => ragdoll'.is_active
       /\ ragdoll.is_active => ragdoll'.is_active]_vars

\* An update has run on a bot whose ragdoll was active already.
C28_Witness ==
    /\ ragdoll.present /\ ragdoll.is_active
    /\ lastEvents.handled
    /\ lastEvents.ragdoll_was_active

(***************************************************************************)
(* C29: between two calls of the impact handler, with dt >= 0, every entry *)
(* of the map has 0 <= k < 1 (in units of 1/Second); an entry that         *)
(* handle_impact has just stored has k = 0.                                *)
(***************************************************************************)
C29_ProgressInRange ==
    /\ \A e \in additional_rotations : 0 <= e.k /\ e.k < Second
    /\ (lastImpact.op = "handle_impact" /\ lastImpact.axis # ZeroVector) =>
           \A e \in additional_rotations : e.bone = lastImpact.handle => e.k = 0

\* An entry one unit short of being pruned has come through update_and_apply,
\* next to one that an update of no length has left at 0.
C29_Witness ==
    /\ lastImpact.op = "update_and_apply"
    /\ \E e \in additional_rotations : e.k = Second - 1
    /\ \E e \in additional_rotations : e.k = 0

(***************************************************************************)
(* C30: handle_impact on a bone that resolves, with an impact point and a  *)
(* direction whose cross product does not normalize, changes nothing: the  *)
(* map is the same (an entry of that bone keeps its source and its k) and  *)
(* the call returns normally.                                              *)
(***************************************************************************)
C30_DegenerateAxisIsNoOp ==
    [][(/\ lastImpact'.op = "handle_impact"
        /\ lastImpact'.handle \in sceneBones
        /\ lastImpact'.axis = ZeroVector)
       => /\ additional_rotations' = additional_rotations
          /\ boneRotation' = boneRotation
          /\ phase' = phase]_vars

\* The degenerate impact came on a bone whose entry had progressed.
C30_Witness ==
    /\ lastImpact.op = "handle_impact"
    /\ lastImpact.handle \in sceneBones
    /\ lastImpact.axis = ZeroVector
    /\ \E e \in lastImpact.prior : e.k > 0 /\ e \in additional_rotations

(***************************************************************************)
(* C31: a turret update runs select_target exactly when target_check_timer *)
(* less the update's dt is <= 0, and then leaves the timer at 0.15 s;      *)
(* any other update takes dt off the timer and leaves the target handle    *)
(* alone.  So from one re-selection to the next the updates' dt add up to  *)
(* at least 0.15 s.                                                        *)
(***************************************************************************)
C31_PeriodicReselection ==
    [][turretTick'.op = "on_update" =>
           LET dt == turretTick'.dt IN
               /\ turretTick'.reselected <=> turret.target_check_timer - dt <= 0
               /\ turretTick'.reselected =>
                      turret'.target_check_timer = TargetCheckInterval
               /\ ~turretTick'.reselected =>
                      /\ turret'.target_check_timer = turret.target_check_timer - dt
                      /\ turret'.target = turret.target]_vars

\* An update between two re-selections kept a target that is no longer in view.
C31_Witness ==
    /\ AfterTurretUpdate /\ ~turretTick.reselected
    /\ turret.target_check_timer < TargetCheckInterval
    /\ turret.target # NONE /\ ~InView(turret.target)

(***************************************************************************)
(* C32: a turret update fires only with a target that resolves to a        *)
(* character and shoot_timer less the update's dt at or under 0; a firing  *)
(* update leaves shoot_timer at shoot_interval and any other one takes dt  *)
(* off it, so two firing updates are at least shoot_interval apart; an     *)
(* update whose target does not resolve fires nothing and aims pitch at 90 *)
(* degrees and yaw ahead of its angle.                                     *)
(***************************************************************************)
C32_FiresOnTargetAndTimer ==
    [][turretTick'.op = "on_update" =>
           LET dt == turretTick'.dt IN
               /\ turretTick'.fired # <<>> => turretTick'.firing
               /\ turretTick'.firing <=>
                      turretTick'.resolved /\ turret.shoot_timer - dt <= 0
               /\ turretTick'.resolved = IsCharacter(turretScene, turret'.target)
               /\ turretTick'.firing => turret'.shoot_timer = turret.shoot_interval
               /\ ~turretTick'.firing =>
                      turret'.shoot_timer = IF turret.shoot_timer - dt <= 0 THEN 0
                                            ELSE turret.shoot_timer - dt
               /\ ~turretTick'.resolved =>
                      /\ turretTick'.fired = <<>>
                      /\ turret'.barrel_index = turret.barrel_index
                      /\ turretTick'.aim = [pitch |-> "90 degrees",
                                            yaw |-> "yaw.angle + 50 degrees * dt"]]_vars

\* The turret has fired before and now idles with its fire timer run out.
C32_Witness ==
    /\ AfterTurretUpdate /\ ~turretTick.resolved /\ ~turretTick.firing
    /\ turret.shoot_timer = 0
    /\ Len(shots) >= 1 /\ turret.barrels >= 1

(***************************************************************************)
(* C33: after a barrel has shot, every later turret update, with a target  *)
(* or without one, moves its kick-back offset toward zero.                 *)
(***************************************************************************)
C33_OffsetSpringsBack ==
    [][turretTick'.op = "on_update" =>
           \A i \in 1..turret.barrels :
               turret.offsets[i] > 0 => turret'.offsets[i] < turret.offsets[i]]_vars

(***************************************************************************)
(* C34: damage dealt to a bot by an attacker that resolves to a character  *)
(* leaves the bot's target at the attacker's handle and the attacker's     *)
(* position of that moment, and damage without such an attacker leaves the *)
(* target as it was; here of Level::damage_actor.                          *)
(***************************************************************************)
C34_DamageTargetsAttacker ==
    [][\A actor_handle \in ActorHandles, who \in {NONE} \cup ActorHandles :
           (DamageActor(actor_handle, who, 1) /\ IsBot(pool, actor_handle)) =>
               pool'[actor_handle].target =
                   IF who # NONE /\ IsValidHandle(pool, who)
                   THEN [handle |-> who, position |-> bodies[who].position]
                   ELSE pool[actor_handle].target]_vars

(***************************************************************************)
(* C35: an update whose tree tick finds the bot's health at or under 0     *)
(* sends no Damage message, whatever events are pending and whatever the   *)
(* target is.                                                              *)
(***************************************************************************)
C35_DeadBotDealsNoDamage ==
    (HasTicked /\ lastEvents.handled /\ phase = "started" /\ tick.health <= 0) =>
        /\ ~lastEvents.is_melee_attacking
        /\ lastEvents.messages = <<>>

\* A dead bot with a target has let a pending hit of its attack pass.
C35_Witness ==
    /\ HasTicked /\ lastEvents.handled /\ phase = "started" /\ tick.health <= 0
    /\ lastEvents.hits >= 1 /\ lastEvents.target # NoTarget
    /\ lastEvents.messages = <<>>

HoldsMasterKey(inventory) == inventory.present /\ inventory.master_keys >= 1

(***************************************************************************)
(* C36: Door::try_open changes the state only of a Closed door and of a    *)
(* Locked door whose caller's inventory holds a MasterKey, and then to     *)
(* Opening; a Locked door without inventory or key stays Locked and only   *)
(* the deny sound is sent; on an Opened, Opening, Closing or Broken door   *)
(* nothing changes and nothing is sent.                                    *)
(***************************************************************************)
C36_TryOpenTransitions ==
    doorTick.op = "try_open" =>
        LET before == doorTick.before
            opens == \/ before.state = "Closed"
                     \/ before.state = "Locked" /\ HoldsMasterKey(doorTick.inventory)
        IN /\ door.offset = before.offset
           /\ door.open_offset_amount = before.open_offset_amount
           /\ door.state = IF opens THEN "Opening" ELSE before.state
           /\ (before.state = "Locked" /\ ~opens) => doorTick.messages = <<"door_deny">>
           /\ before.state \in {"Opened", "Opening", "Closing", "Broken"} =>
                  doorTick.messages = <<>>

\* A Locked door was tried with an inventory that holds no MasterKey.
C36_Witness ==
    /\ doorTick.op = "try_open" /\ doorTick.before.state = "Locked"
    /\ doorTick.inventory.present /\ doorTick.inventory.master_keys = 0
    /\ door.state = "Locked" /\ doorTick.messages = <<"door_deny">>

\* A Locked door was opened with a MasterKey.
C36_WitnessUnlocked ==
    /\ doorTick.op = "try_open" /\ doorTick.before.state = "Locked"
    /\ door.state = "Opening"

(***************************************************************************)
(* C37: a door made by Door::new with open_offset_amount >= 0 keeps        *)
(* 0 <= offset <= open_offset_amount under try_open and updates of dt >= 0;*)
(* it enters Opened only at offset = open_offset_amount and Closed only at *)
(* offset = 0; and an Opened door is switched to Closing by exactly the    *)
(* updates in which no actor is nearer than 1.25 to its initial position.  *)
(***************************************************************************)
C37_OffsetInRange ==
    /\ 0 <= door.offset /\ door.offset <= door.open_offset_amount
    /\ doorTick.op # "none" =>
           /\ (door.state = "Opened" /\ doorTick.before.state # "Opened") =>
                  door.offset = door.open_offset_amount
           /\ (door.state = "Closed" /\ doorTick.before.state # "Closed") =>
                  door.offset = 0
           /\ doorTick.closing <=>
                  /\ doorTick.op = "update" /\ doorTick.before.state = "Opened"
                  /\ \A distance \in doorTick.near : ~(distance < DoorRange)
           /\ doorTick.before.state = "Opened" =>
                  IF doorTick.closing THEN door.state \in {"Closing", "Closed"}
                  ELSE door.state = "Opened"
           /\ (door.state = "Closing" /\ doorTick.before.state # "Closing") =>
                  doorTick.closing

\* An open door that everybody has left is on its way back.
C37_Witness ==
    /\ doorTick.op = "update" /\ doorTick.before.state = "Opened" /\ doorTick.closing
    /\ doorTick.near # {}
    /\ door.state = "Closing" /\ 0 < door.offset /\ door.offset < door.open_offset_amount

\* An opening door was stopped at its full opening by the clamp.
C37_WitnessClamped ==
    /\ doorTick.op = "update" /\ doorTick.before.state = "Opening"
    /\ door.state = "Opened" /\ door.offset = door.open_offset_amount
    /\ doorTick.before.offset + DoorSpeed * doorTick.dt > door.open_offset_amount

(***************************************************************************)
(* C38: under updates with dt > 0 that keep coming, a door in Opening      *)
(* reaches Opened and a door in Closing reaches Closed, whatever           *)
(* Door::new made of it.                                                   *)
(***************************************************************************)
C38_DoorMovementCompletes ==
    /\ (door.state = "Opening") ~> (door.state = "Opened")
    /\ (door.state = "Closing") ~> (door.state = "Closed")

InSeq(x, seq) == \E i \in 1..Len(seq) : seq[i] = x

====
